---- MODULE Spec2Model ----
(***************************************************************************)
(* Paper-trading ledger and matching loop of the market-watch dashboard    *)
(* (App component, src/unnamed/part_000).                                  *)
(*                                                                         *)
(* JavaScript numbers are modelled as exact rationals <<n, d>> with d > 0  *)
(* in lowest terms; NaN is <<0, 0>>.  Every arithmetic step of the source  *)
(* is carried out by the corresponding rational operator, so the model     *)
(* describes the real-number meaning of the arithmetic (IEEE rounding is   *)
(* not modelled).                                                          *)
(*                                                                         *)
(* The display-only "time" field (hh:mm) of orders and trades is omitted.  *)
(***************************************************************************)
EXTENDS Integers, Sequences, FiniteSets, TLC

(***************************************************************************)
(* Bounds of the model.                                                    *)
(***************************************************************************)
\* number of orders that may be accepted in one behaviour
MaxOrders == 2
\* the number of quote requests (poll ticks) considered
MaxRequests == 2
\* longest daily series a k-line response carries
MaxBars == 4
\* longest intraday series a minute response carries
MaxPoints == 2
\* number of orders that may be accepted when nothing but trading is done
MaxTrades == 4
\* number of values the generation counter of the poll takes in turn
MaxGenerations == 3

(***************************************************************************)
(* JavaScript numbers as rationals.                                        *)
(***************************************************************************)
Abs(x) == IF x < 0 THEN -x ELSE x

RECURSIVE GCD(_, _)
GCD(a, b) == IF b = 0 THEN a ELSE GCD(b, a % b)

\* the number n/d (d # 0) in lowest terms with a positive denominator
Norm(n, d) ==
    LET g == GCD(Abs(n), Abs(d))
        s == IF d < 0 THEN -1 ELSE 1
    IN  <<(s * n) \div g, (s * d) \div g>>

Num(k) == <<k, 1>>
NaN == <<0, 0>>
isNaN(a) == a[2] = 0

RAdd(a, b) == Norm(a[1] * b[2] + b[1] * a[2], a[2] * b[2])
RSub(a, b) == Norm(a[1] * b[2] - b[1] * a[2], a[2] * b[2])
RMul(a, b) == Norm(a[1] * b[1], a[2] * b[2])
RDiv(a, b) == Norm(a[1] * b[2], a[2] * b[1])
RLt(a, b) == a[1] * b[2] < b[1] * a[2]
RLeq(a, b) == a[1] * b[2] <= b[1] * a[2]
RGt(a, b) == RLt(b, a)
RGeq(a, b) == RLeq(b, a)

(***************************************************************************)
(* Inputs.                                                                 *)
(***************************************************************************)
\* the symbols a watch-list may hold (two of DEFAULT_CODES)
Codes == {"hk00700", "sh600519"}
\* a watch-list of one symbol, as the user may have stored it
SingleCode == {"hk00700"}
NoCode == ""
\* localStorage.getItem of a key that was never written
NoItem == [kind |-> "none"]

\* parseFloat(simPrice): not a number, non-positive, or a limit price
PriceInputs == {NaN, Num(0), Num(50), Num(60)}
\* parseInt(simVol): not a number, non-positive, or a share count
VolInputs == {NaN, Num(0), Num(100)}
\* parseFloat(tempCapital)
CapitalInputs == {NaN, Num(-5000), Num(0), Num(5000), Num(100000)}
\* prices a quote response may carry (safe(3))
QuotePrices == {Num(49), Num(60), Num(61)}
Sides == {"BUY", "SELL"}
\* values of Date.now(), counted from the first accepted order; the clock
\* may stand still between two submissions
OrderIds == 0..MaxOrders

DefaultCapital == 1000000

VARIABLES
    stored,         \* localStorage item SIMULATION_KEY as the page found it
    codes,          \* the watch-list
    simState,       \* GlobalSimState: cash, initialCapital, positions
    selectedCode,   \* the selected symbol, "" when none
    stocks,         \* quote price per symbol of the last applied response
    matchEffect,    \* the matching effect scheduled by a change of selStock
    clock,          \* last value returned by Date.now()
    accepted,       \* number of orders accepted so far (bounds the model)
    requestIdRef,   \* requestIdRef.current: generation of the newest request
    quoteInFlight,  \* generations of the quote requests not yet answered
    appliedId,      \* generation of the response that last wrote stocks
    lastSelectedCodeRef,    \* lastSelectedCodeRef.current
    seriesInFlight, \* the series requests not yet answered
    seriesData      \* minuteData and klineData per symbol

\* the state of the quote and series fetches
fetchVars ==
    <<requestIdRef, quoteInFlight, appliedId, lastSelectedCodeRef,
      seriesInFlight, seriesData>>

vars ==
    <<stored, codes, simState, selectedCode, stocks, matchEffect, clock, accepted,
      fetchVars>>

(***************************************************************************)
(* Ledger values.                                                          *)
(***************************************************************************)
\* the account handleTradeAction uses for a symbol without a position
EmptyAccount ==
    [holding |-> Num(0), avgCost |-> Num(0), realizedPnl |-> Num(0),
     trades |-> <<>>, pending |-> <<>>]

\* the ledger of a fresh account
DefaultSimState ==
    [cash |-> Num(DefaultCapital), initialCapital |-> Num(DefaultCapital),
     positions |-> [c \in {} |-> EmptyAccount]]

HasPosition(st, code) == code \in DOMAIN st.positions

\* { ...prev.positions, [code]: pos }
PutPosition(positions, code, pos) ==
    [c \in (DOMAIN positions) \cup {code} |->
        IF c = code THEN pos ELSE positions[c]]

\* delete nextPositions[code]
DropPosition(positions, code) ==
    [c \in (DOMAIN positions) \ {code} |-> positions[c]]

\* PendingOrder; the id is Date.now().toString(), kept as the clock value
NewOrder(id, price, vol, type) ==
    [id |-> id, price |-> price, shares |-> vol, type |-> type]

\* ExecTrade with the limit price recorded as the amount of the trade
ExecTrade_PriceAsAmount(order) ==
    [id |-> <<order.id, "_exec">>, price |-> order.price,
     shares |-> order.shares, type |-> order.type,
     amount |-> order.price]

\* the SimTrade recorded for a filled order; its id is order.id + '_exec'
ExecTrade(order) ==
    [id |-> <<order.id, "_exec">>, price |-> order.price,
     shares |-> order.shares, type |-> order.type,
     amount |-> RMul(order.price, order.shares)]

(***************************************************************************)
(* The state updaters: each is the function the handler passes to          *)
(* setSimState, from the previous ledger to the next.                      *)
(***************************************************************************)
\* handleTradeAction, the input check of lines 944-947
ValidOrderInput(price, vol) ==
    ~(isNaN(price) \/ RLeq(price, Num(0)) \/ isNaN(vol) \/ RLeq(vol, Num(0)))

\* handleTradeActionUpdate with the cash check made strict: a BUY that
\* needs all of the cash is turned down
handleTradeActionUpdate_StrictCash(prev, code, type, price, vol, id) ==
    LET account == IF HasPosition(prev, code) THEN prev.positions[code]
                   ELSE EmptyAccount
        newOrder == NewOrder(id, price, vol, type)
        needed == RMul(price, vol)
    IN  IF type = "BUY"
        THEN IF RLeq(prev.cash, needed)
             THEN prev
             ELSE [prev EXCEPT
                     !.cash = RSub(prev.cash, needed),
                     !.positions = PutPosition(prev.positions, code,
                         [account EXCEPT !.pending = Append(@, newOrder)])]
        ELSE IF RLt(account.holding, vol)
             THEN prev
             ELSE [prev EXCEPT
                     !.positions = PutPosition(prev.positions, code,
                         [account EXCEPT
                            !.holding = RSub(account.holding, vol),
                            !.pending = Append(@, newOrder)])]

\* handleTradeActionUpdate without the reservation of the shares of a SELL
handleTradeActionUpdate_NoShareReserve(prev, code, type, price, vol, id) ==
    LET account == IF HasPosition(prev, code) THEN prev.positions[code]
                   ELSE EmptyAccount
        newOrder == NewOrder(id, price, vol, type)
        needed == RMul(price, vol)
    IN  IF type = "BUY"
        THEN IF RLt(prev.cash, needed)
             THEN prev
             ELSE [prev EXCEPT
                     !.cash = RSub(prev.cash, needed),
                     !.positions = PutPosition(prev.positions, code,
                         [account EXCEPT !.pending = Append(@, newOrder)])]
        ELSE IF RLt(account.holding, vol)
             THEN prev
             ELSE [prev EXCEPT
                     !.positions = PutPosition(prev.positions, code,
                         [account EXCEPT !.pending = Append(@, newOrder)])]

\* handleTradeActionUpdate storing the account it looked up even when the
\* order is turned down
handleTradeActionUpdate_RejectCreates(prev, code, type, price, vol, id) ==
    LET account == IF HasPosition(prev, code) THEN prev.positions[code]
                   ELSE EmptyAccount
        newOrder == NewOrder(id, price, vol, type)
        needed == RMul(price, vol)
        kept == [prev EXCEPT
                   !.positions = PutPosition(prev.positions, code, account)]
    IN  IF type = "BUY"
        THEN IF RLt(prev.cash, needed)
             THEN kept
             ELSE [prev EXCEPT
                     !.cash = RSub(prev.cash, needed),
                     !.positions = PutPosition(prev.positions, code,
                         [account EXCEPT !.pending = Append(@, newOrder)])]
        ELSE IF RLt(account.holding, vol)
             THEN kept
             ELSE [prev EXCEPT
                     !.positions = PutPosition(prev.positions, code,
                         [account EXCEPT
                            !.holding = RSub(account.holding, vol),
                            !.pending = Append(@, newOrder)])]

\* handleTradeActionUpdate without the funds check of a BUY
handleTradeActionUpdate_NoCashCheck(prev, code, type, price, vol, id) ==
    LET account == IF HasPosition(prev, code) THEN prev.positions[code]
                   ELSE EmptyAccount
        newOrder == NewOrder(id, price, vol, type)
        needed == RMul(price, vol)
    IN  IF type = "BUY"
        THEN [prev EXCEPT
                !.cash = RSub(prev.cash, needed),
                !.positions = PutPosition(prev.positions, code,
                    [account EXCEPT !.pending = Append(@, newOrder)])]
        ELSE IF RLt(account.holding, vol)
             THEN prev
             ELSE [prev EXCEPT
                     !.positions = PutPosition(prev.positions, code,
                         [account EXCEPT
                            !.holding = RSub(account.holding, vol),
                            !.pending = Append(@, newOrder)])]

\* handleTradeActionUpdate without the held-shares check of a SELL
handleTradeActionUpdate_NoHoldingCheck(prev, code, type, price, vol, id) ==
    LET account == IF HasPosition(prev, code) THEN prev.positions[code]
                   ELSE EmptyAccount
        newOrder == NewOrder(id, price, vol, type)
        needed == RMul(price, vol)
    IN  IF type = "BUY"
        THEN IF RLt(prev.cash, needed)
             THEN prev
             ELSE [prev EXCEPT
                     !.cash = RSub(prev.cash, needed),
                     !.positions = PutPosition(prev.positions, code,
                         [account EXCEPT !.pending = Append(@, newOrder)])]
        ELSE [prev EXCEPT
                !.positions = PutPosition(prev.positions, code,
                    [account EXCEPT
                       !.holding = RSub(account.holding, vol),
                       !.pending = Append(@, newOrder)])]

\* handleTradeAction, lines 959-1002: reserve cash (BUY) or shares (SELL)
\* and append the order; the ledger is returned as it is when short
handleTradeActionUpdate(prev, code, type, price, vol, id) ==
    LET account == IF HasPosition(prev, code) THEN prev.positions[code]
                   ELSE EmptyAccount
        newOrder == NewOrder(id, price, vol, type)
        needed == RMul(price, vol)
    IN  IF type = "BUY"
        THEN IF RLt(prev.cash, needed)
             THEN prev
             ELSE [prev EXCEPT
                     !.cash = RSub(prev.cash, needed),
                     !.positions = PutPosition(prev.positions, code,
                         [account EXCEPT !.pending = Append(@, newOrder)])]
        ELSE IF RLt(account.holding, vol)
             THEN prev
             ELSE [prev EXCEPT
                     !.positions = PutPosition(prev.positions, code,
                         [account EXCEPT
                            !.holding = RSub(account.holding, vol),
                            !.pending = Append(@, newOrder)])]

\* SweepOrder with a BUY that fills only below its limit price
SweepOrder_StrictBuy(acc, order, currentPrice) ==
    IF order.type = "BUY" /\ RLt(currentPrice, order.price)
    THEN LET costBasis == RAdd(RMul(acc.holding, acc.avgCost),
                               RMul(order.price, order.shares))
             newHolding == RAdd(acc.holding, order.shares)
         IN  [acc EXCEPT
                !.holding = newHolding,
                !.avgCost = IF RGt(newHolding, Num(0))
                            THEN RDiv(costBasis, newHolding) ELSE Num(0),
                !.trades = Append(@, ExecTrade(order)),
                !.hasChanges = TRUE]
    ELSE IF order.type = "SELL" /\ RGeq(currentPrice, order.price)
    THEN [acc EXCEPT
            !.cash = RAdd(@, RMul(order.price, order.shares)),
            !.realizedPnl =
                RAdd(@, RMul(RSub(order.price, acc.avgCost), order.shares)),
            !.trades = Append(@, ExecTrade(order)),
            !.hasChanges = TRUE]
    ELSE [acc EXCEPT !.remaining = Append(@, order)]

\* SweepOrder with the average cost taken as the plain mean of the old
\* average cost and the limit price
SweepOrder_PlainMean(acc, order, currentPrice) ==
    IF order.type = "BUY" /\ RLeq(currentPrice, order.price)
    THEN LET costBasis == RAdd(RMul(acc.holding, acc.avgCost),
                               RMul(order.price, order.shares))
             newHolding == RAdd(acc.holding, order.shares)
         IN  [acc EXCEPT
                !.holding = newHolding,
                !.avgCost = RDiv(RAdd(acc.avgCost, order.price), Num(2)),
                !.trades = Append(@, ExecTrade(order)),
                !.hasChanges = TRUE]
    ELSE IF order.type = "SELL" /\ RGeq(currentPrice, order.price)
    THEN [acc EXCEPT
            !.cash = RAdd(@, RMul(order.price, order.shares)),
            !.realizedPnl =
                RAdd(@, RMul(RSub(order.price, acc.avgCost), order.shares)),
            !.trades = Append(@, ExecTrade(order)),
            !.hasChanges = TRUE]
    ELSE [acc EXCEPT !.remaining = Append(@, order)]

\* SweepOrder with a BUY filled at the tick price, the difference to the
\* limit price going back to cash
SweepOrder_RefundsDifference(acc, order, currentPrice) ==
    IF order.type = "BUY" /\ RLeq(currentPrice, order.price)
    THEN LET costBasis == RAdd(RMul(acc.holding, acc.avgCost),
                               RMul(order.price, order.shares))
             newHolding == RAdd(acc.holding, order.shares)
         IN  [acc EXCEPT
                !.cash = RAdd(@, RMul(RSub(order.price, currentPrice),
                                      order.shares)),
                !.holding = newHolding,
                !.avgCost = IF RGt(newHolding, Num(0))
                            THEN RDiv(costBasis, newHolding) ELSE Num(0),
                !.trades = Append(@, ExecTrade(order)),
                !.hasChanges = TRUE]
    ELSE IF order.type = "SELL" /\ RGeq(currentPrice, order.price)
    THEN [acc EXCEPT
            !.cash = RAdd(@, RMul(order.price, order.shares)),
            !.realizedPnl =
                RAdd(@, RMul(RSub(order.price, acc.avgCost), order.shares)),
            !.trades = Append(@, ExecTrade(order)),
            !.hasChanges = TRUE]
    ELSE [acc EXCEPT !.remaining = Append(@, order)]

\* SweepOrder with a SELL settled at the tick price instead of its limit
\* price
SweepOrder_SellAtTick(acc, order, currentPrice) ==
    IF order.type = "BUY" /\ RLeq(currentPrice, order.price)
    THEN LET costBasis == RAdd(RMul(acc.holding, acc.avgCost),
                               RMul(order.price, order.shares))
             newHolding == RAdd(acc.holding, order.shares)
         IN  [acc EXCEPT
                !.holding = newHolding,
                !.avgCost = IF RGt(newHolding, Num(0))
                            THEN RDiv(costBasis, newHolding) ELSE Num(0),
                !.trades = Append(@, ExecTrade(order)),
                !.hasChanges = TRUE]
    ELSE IF order.type = "SELL" /\ RGeq(currentPrice, order.price)
    THEN [acc EXCEPT
            !.cash = RAdd(@, RMul(currentPrice, order.shares)),
            !.realizedPnl =
                RAdd(@, RMul(RSub(currentPrice, acc.avgCost), order.shares)),
            !.trades = Append(@, ExecTrade(order)),
            !.hasChanges = TRUE]
    ELSE [acc EXCEPT !.remaining = Append(@, order)]

\* SweepOrder with the shares of a SELL taken out of the holding again when
\* it fills
SweepOrder_SellTakesShares(acc, order, currentPrice) ==
    IF order.type = "BUY" /\ RLeq(currentPrice, order.price)
    THEN LET costBasis == RAdd(RMul(acc.holding, acc.avgCost),
                               RMul(order.price, order.shares))
             newHolding == RAdd(acc.holding, order.shares)
         IN  [acc EXCEPT
                !.holding = newHolding,
                !.avgCost = IF RGt(newHolding, Num(0))
                            THEN RDiv(costBasis, newHolding) ELSE Num(0),
                !.trades = Append(@, ExecTrade(order)),
                !.hasChanges = TRUE]
    ELSE IF order.type = "SELL" /\ RGeq(currentPrice, order.price)
    THEN [acc EXCEPT
            !.cash = RAdd(@, RMul(order.price, order.shares)),
            !.holding = RSub(@, order.shares),
            !.realizedPnl =
                RAdd(@, RMul(RSub(order.price, acc.avgCost), order.shares)),
            !.trades = Append(@, ExecTrade(order)),
            !.hasChanges = TRUE]
    ELSE [acc EXCEPT !.remaining = Append(@, order)]

\* one call of the filter callback, lines 1027-1058, on the running totals
SweepOrder(acc, order, currentPrice) ==
    IF order.type = "BUY" /\ RLeq(currentPrice, order.price)
    THEN LET costBasis == RAdd(RMul(acc.holding, acc.avgCost),
                               RMul(order.price, order.shares))
             newHolding == RAdd(acc.holding, order.shares)
         IN  [acc EXCEPT
                !.holding = newHolding,
                !.avgCost = IF RGt(newHolding, Num(0))
                            THEN RDiv(costBasis, newHolding) ELSE Num(0),
                !.trades = Append(@, ExecTrade(order)),
                !.hasChanges = TRUE]
    ELSE IF order.type = "SELL" /\ RGeq(currentPrice, order.price)
    THEN [acc EXCEPT
            !.cash = RAdd(@, RMul(order.price, order.shares)),
            !.realizedPnl =
                RAdd(@, RMul(RSub(order.price, acc.avgCost), order.shares)),
            !.trades = Append(@, ExecTrade(order)),
            !.hasChanges = TRUE]
    ELSE [acc EXCEPT !.remaining = Append(@, order)]

RECURSIVE Sweep_NewestFirst(_, _, _)
\* the sweep visiting the orders newest first
Sweep_NewestFirst(orders, acc, currentPrice) ==
    IF orders = <<>> THEN acc
    ELSE SweepOrder(Sweep_NewestFirst(Tail(orders), acc, currentPrice),
                    Head(orders), currentPrice)

RECURSIVE Sweep_FirstFillOnly(_, _, _)
\* the sweep stopping after its first fill: the later orders are kept
\* resting whether they trigger or not
Sweep_FirstFillOnly(orders, acc, currentPrice) ==
    IF orders = <<>> THEN acc
    ELSE IF acc.hasChanges
    THEN Sweep_FirstFillOnly(Tail(orders),
             [acc EXCEPT !.remaining = Append(@, Head(orders))], currentPrice)
    ELSE Sweep_FirstFillOnly(Tail(orders),
             SweepOrder(acc, Head(orders), currentPrice), currentPrice)

RECURSIVE Sweep(_, _, _)
\* newPending.filter(...): the orders are visited oldest first
Sweep(orders, acc, currentPrice) ==
    IF orders = <<>> THEN acc
    ELSE Sweep(Tail(orders), SweepOrder(acc, Head(orders), currentPrice),
               currentPrice)

\* the running totals the matching effect starts from, lines 1014-1020
SweepStart(prev, account) ==
    [cash |-> prev.cash, holding |-> account.holding,
     avgCost |-> account.avgCost, realizedPnl |-> account.realizedPnl,
     trades |-> account.trades, remaining |-> <<>>, hasChanges |-> FALSE]

\* the matching effect sweeping the resting orders of every symbol of the
\* ledger at the tick's price
matchingUpdate_EverySymbol(prev, code, currentPrice) ==
    LET One(st, c) ==
            IF st.positions[c].pending = <<>> THEN st
            ELSE LET account == st.positions[c]
                     r == Sweep(account.pending, SweepStart(st, account),
                                currentPrice)
                 IN  IF ~r.hasChanges THEN st
                     ELSE [st EXCEPT
                             !.cash = r.cash,
                             !.positions = PutPosition(st.positions, c,
                                 [account EXCEPT
                                    !.holding = r.holding,
                                    !.avgCost = r.avgCost,
                                    !.realizedPnl = r.realizedPnl,
                                    !.trades = r.trades,
                                    !.pending = r.remaining])]
        held == DOMAIN prev.positions
        swept[S \in SUBSET held] ==
            IF S = {} THEN prev
            ELSE LET c == CHOOSE x \in S : TRUE
                 IN  One(swept[S \ {c}], c)
    IN  swept[held]

\* the matching effect, lines 1010-1077
matchingUpdate(prev, code, currentPrice) ==
    IF ~HasPosition(prev, code) THEN prev
    ELSE IF prev.positions[code].pending = <<>> THEN prev
    ELSE LET account == prev.positions[code]
             r == Sweep(account.pending, SweepStart(prev, account),
                        currentPrice)
         IN  IF ~r.hasChanges THEN prev
             ELSE [prev EXCEPT
                     !.cash = r.cash,
                     !.positions = PutPosition(prev.positions, code,
                         [account EXCEPT
                            !.holding = r.holding,
                            !.avgCost = r.avgCost,
                            !.realizedPnl = r.realizedPnl,
                            !.trades = r.trades,
                            !.pending = r.remaining])]

\* pendingList.find(o => o.id === orderId): index of the first match, 0 if none
FindOrder(pendingList, orderId) ==
    LET hits == {i \in 1..Len(pendingList) : pendingList[i].id = orderId}
    IN  IF hits = {} THEN 0
        ELSE CHOOSE i \in hits : \A j \in hits : i <= j

\* cancelOrder, lines 1083-1112
cancelOrderUpdate(prev, code, orderId) ==
    IF ~HasPosition(prev, code) THEN prev
    ELSE LET account == prev.positions[code]
             pendingList == account.pending
             found == FindOrder(pendingList, orderId)
         IN  IF found = 0 THEN prev
             ELSE LET orderToCancel == pendingList[found]
                      Other(o) == o.id # orderId
                      newCash ==
                          IF orderToCancel.type = "BUY"
                          THEN RAdd(prev.cash, RMul(orderToCancel.price,
                                                    orderToCancel.shares))
                          ELSE prev.cash
                      newHolding ==
                          IF orderToCancel.type = "BUY"
                          THEN account.holding
                          ELSE RAdd(account.holding, orderToCancel.shares)
                  IN  [prev EXCEPT
                         !.cash = newCash,
                         !.positions = PutPosition(prev.positions, code,
                             [account EXCEPT
                                !.holding = newHolding,
                                !.pending = SelectSeq(pendingList, Other)])]

\* updateCapital, lines 1115-1125
ValidCapital(newCap) == ~isNaN(newCap) /\ RGt(newCap, Num(0))

\* updateCapitalUpdate carrying the spent cash over to the new capital
updateCapitalUpdate_KeepsSpent(prev, newCap) ==
    [prev EXCEPT !.initialCapital = newCap,
                 !.cash = RSub(newCap, RSub(prev.initialCapital, prev.cash))]

updateCapitalUpdate(prev, newCap) ==
    [prev EXCEPT !.initialCapital = newCap, !.cash = newCap]

\* deleteTradeUpdate undoing the position as well: the shares held are
\* given up when a trade is deleted
deleteTradeUpdate_DropsHolding(prev, code, tradeId) ==
    IF ~HasPosition(prev, code) THEN prev
    ELSE LET currentPos == prev.positions[code]
             Other(t) == t.id # tradeId
         IN  [prev EXCEPT
                !.positions = PutPosition(prev.positions, code,
                    [currentPos EXCEPT
                       !.holding = Num(0),
                       !.trades = SelectSeq(currentPos.trades, Other)])]

\* deleteTrade, lines 1127-1143
deleteTradeUpdate(prev, code, tradeId) ==
    IF ~HasPosition(prev, code) THEN prev
    ELSE LET currentPos == prev.positions[code]
             Other(t) == t.id # tradeId
         IN  [prev EXCEPT
                !.positions = PutPosition(prev.positions, code,
                    [currentPos EXCEPT
                       !.trades = SelectSeq(currentPos.trades, Other)])]

RECURSIVE BuyNotional(_)
\* clearStock, lines 1159-1163: the cash reserved by the resting BUY orders
BuyNotional(pending) ==
    IF pending = <<>> THEN Num(0)
    ELSE LET o == Head(pending)
         IN  RAdd(IF o.type = "BUY" THEN RMul(o.price, o.shares) ELSE Num(0),
                  BuyNotional(Tail(pending)))

\* clearStockUpdate handing back the notional of every resting order,
\* SELL orders included
clearStockUpdate_RefundsSells(prev, code) ==
    IF ~HasPosition(prev, code) THEN prev
    ELSE LET currentPos == prev.positions[code]
             p == currentPos.pending
             all[i \in 0..Len(p)] ==
                 IF i = 0 THEN Num(0)
                 ELSE RAdd(all[i - 1], RMul(p[i].price, p[i].shares))
             refund == RAdd(RMul(currentPos.holding, currentPos.avgCost),
                            all[Len(p)])
         IN  [prev EXCEPT
                !.cash = RAdd(prev.cash, refund),
                !.positions = DropPosition(prev.positions, code)]

\* clearStock, lines 1154-1173
clearStockUpdate(prev, code) ==
    IF ~HasPosition(prev, code) THEN prev
    ELSE LET currentPos == prev.positions[code]
             refund == RAdd(RMul(currentPos.holding, currentPos.avgCost),
                            BuyNotional(currentPos.pending))
         IN  [prev EXCEPT
                !.cash = RAdd(prev.cash, refund),
                !.positions = DropPosition(prev.positions, code)]

(***************************************************************************)
(* The component state and its handlers.                                   *)
(***************************************************************************)
\* selStock = stocks.find(s => s.code === selectedCode), line 782
HasSelStock == selectedCode \in DOMAIN stocks

NoEffect == [on |-> FALSE, code |-> NoCode, price |-> NaN]

\* the quote responses considered: every symbol of the watch-list, all at
\* the same price
QuoteResponses == {[c \in codes |-> p] : p \in QuotePrices}

\* minuteData: [], klineData: [] of a stock object
EmptySeries == [minuteData |-> "none", klineData |-> "none"]

\* the state after construction, with the stored watch-list
InitWith(watchList) ==
    /\ stored = NoItem
    /\ codes = watchList
    /\ simState = DefaultSimState
    /\ selectedCode = NoCode
    /\ stocks = [c \in {} |-> NaN]
    /\ matchEffect = NoEffect
    /\ clock = 0
    /\ accepted = 0
    /\ requestIdRef = 0
    /\ quoteInFlight = {}
    /\ appliedId = 0
    /\ lastSelectedCodeRef = NoCode
    /\ seriesInFlight = {}
    /\ seriesData = [c \in watchList |-> EmptySeries]

Init == InitWith(Codes)
InitSingle == InitWith(SingleCode)

\* the high-price warning of lines 950-954 is shown
NeedsConfirm(type, price) ==
    type = "BUY" /\ HasSelStock /\ RGt(price, stocks[selectedCode])

\* handleTradeAction reaches setSimState, lines 940-954
SubmitGoes(type, price, vol, confirmed) ==
    /\ selectedCode # NoCode
    /\ ValidOrderInput(price, vol)
    /\ (NeedsConfirm(type, price) => confirmed)

\* handleTradeAction, lines 937-1003, as a function of its inputs: the next
\* ledger; now is the value of Date.now()
SubmitResult(type, price, vol, confirmed, now) ==
    IF SubmitGoes(type, price, vol, confirmed)
    THEN handleTradeActionUpdate(simState, selectedCode, type, price, vol, now)
    ELSE simState

SubmitOrder(type, price, vol, confirmed, now) ==
    /\ ~matchEffect.on
    /\ accepted < MaxOrders
    /\ now \in {clock, clock + 1}
    /\ now <= accepted
    /\ LET next == SubmitResult(type, price, vol, confirmed, now)
       IN  /\ simState' = next
           /\ clock' = IF next # simState THEN now ELSE clock
           /\ accepted' = IF next # simState THEN accepted + 1 ELSE accepted
    /\ UNCHANGED <<stored, codes, selectedCode, stocks, matchEffect, fetchVars>>

HandleTradeAction ==
    \E type \in Sides, price \in PriceInputs, vol \in VolInputs,
       confirmed \in BOOLEAN, now \in OrderIds :
        SubmitOrder(type, price, vol, confirmed, now)

\* the matching effect of lines 1006-1079, run for the selStock it captured
MatchTick(code, currentPrice) ==
    /\ matchEffect = [on |-> TRUE, code |-> code, price |-> currentPrice]
    /\ simState' = matchingUpdate(simState, code, currentPrice)
    /\ matchEffect' = NoEffect
    /\ UNCHANGED <<stored, codes, selectedCode, stocks, clock, accepted, fetchVars>>

MatchingEffect ==
    \E code \in codes, currentPrice \in QuotePrices :
        MatchTick(code, currentPrice)

\* cancelOrder, lines 1081-1113, as a function of the order id
CancelResult(orderId) ==
    IF selectedCode = NoCode THEN simState
    ELSE cancelOrderUpdate(simState, selectedCode, orderId)

CancelOrderId(orderId) ==
    /\ ~matchEffect.on
    /\ simState' = CancelResult(orderId)
    /\ UNCHANGED <<stored, codes, selectedCode, stocks, matchEffect, clock, accepted,
                 fetchVars>>

CancelOrder == \E orderId \in OrderIds : CancelOrderId(orderId)

\* updateCapital, lines 1116-1124: the ledger after the handler has run on
\* the input newCap; setSimState is skipped for an input that is NaN or
\* not above zero
CapitalResult(newCap) ==
    IF ValidCapital(newCap)
    THEN updateCapitalUpdate(simState, newCap)
    ELSE simState

\* updateCapital, lines 1115-1125
SetInitialCapital(newCap) ==
    /\ ~matchEffect.on
    /\ simState' = CapitalResult(newCap)
    /\ UNCHANGED <<stored, codes, selectedCode, stocks, matchEffect, clock, accepted,
                 fetchVars>>

UpdateCapital == \E newCap \in CapitalInputs : SetInitialCapital(newCap)

\* deleteTrade, lines 1127-1143
DeleteTradeId(tradeId) ==
    /\ ~matchEffect.on
    /\ simState' = deleteTradeUpdate(simState, selectedCode, tradeId)
    /\ UNCHANGED <<stored, codes, selectedCode, stocks, matchEffect, clock, accepted,
                 fetchVars>>

DeleteTrade == \E id \in OrderIds : DeleteTradeId(<<id, "_exec">>)

\* a reset that only puts the cash back to the initial capital
resetAccountState_CashOnly ==
    [simState EXCEPT !.cash = simState.initialCapital]

\* resetAccount, line 1147: the ledger literal given to setSimState
resetAccountState ==
    [cash |-> Num(1000000), initialCapital |-> Num(1000000),
     positions |-> [c \in {} |-> EmptyAccount]]

\* resetAccount, lines 1145-1149
ResetConfirm(confirmed) ==
    /\ ~matchEffect.on
    /\ simState' = IF confirmed THEN resetAccountState ELSE simState
    /\ UNCHANGED <<stored, codes, selectedCode, stocks, matchEffect, clock, accepted,
                 fetchVars>>

ResetAccount == \E confirmed \in BOOLEAN : ResetConfirm(confirmed)

\* clearStock, lines 1151-1175
ClearSymbol(confirmed) ==
    /\ ~matchEffect.on
    /\ simState' = IF selectedCode # NoCode /\ confirmed
                    THEN clearStockUpdate(simState, selectedCode)
                    ELSE simState
    /\ UNCHANGED <<stored, codes, selectedCode, stocks, matchEffect, clock, accepted,
                 fetchVars>>

ClearStock == \E confirmed \in BOOLEAN : ClearSymbol(confirmed)

\* setSelectedCode: the list item's onClick (line 1302) and the effect that
\* selects codes[0] (line 606); a changed selStock schedules the matching
\* effect
SelectCode ==
    \E c \in codes :
        /\ ~matchEffect.on
        /\ c # selectedCode
        /\ selectedCode' = c
        /\ matchEffect' = IF c \in DOMAIN stocks
                           THEN [on |-> TRUE, code |-> c, price |-> stocks[c]]
                           ELSE NoEffect
        /\ UNCHANGED <<stored, codes, simState, stocks, clock, accepted, fetchVars>>

\* fetchRealData, lines 697-715: a quote response is applied; every stock
\* object is rebuilt, so selStock changes and the matching effect is
\* scheduled
ApplyQuote ==
    \E q \in QuoteResponses :
        /\ ~matchEffect.on
        /\ stocks' = q
        /\ matchEffect' = IF selectedCode # NoCode
                           THEN [on |-> TRUE, code |-> selectedCode,
                                 price |-> q[selectedCode]]
                           ELSE NoEffect
        /\ UNCHANGED <<stored, codes, simState, selectedCode, clock, accepted, fetchVars>>

Next ==
    \/ HandleTradeAction
    \/ MatchingEffect
    \/ CancelOrder
    \/ UpdateCapital
    \/ DeleteTrade
    \/ ResetAccount
    \/ ClearStock
    \/ SelectCode
    \/ ApplyQuote

Spec == Init /\ [][Next]_vars

(***************************************************************************)
(* The quote poll and the series fetches.  They share selectedCode and     *)
(* stocks with the ledger and nothing else, and are explored on their own: *)
(* the steps above stand for polls whose response is the newest one.  A    *)
(* response carries the data of the symbol it was requested for, written   *)
(* as that symbol's code.                                                  *)
(***************************************************************************)
Kinds == {"minuteData", "klineData"}

\* what a fetch resolves to: usable data, a body without the expected
\* array, or an HTML page / a network error
Outcomes == {"array", "other", "html"}

\* fetchRealData, lines 673-680: a poll tick sends the next request
FetchRealData ==
    /\ ~matchEffect.on
    /\ codes # {}
    /\ requestIdRef < MaxRequests
    /\ requestIdRef' = requestIdRef + 1
    /\ quoteInFlight' = quoteInFlight \cup {requestIdRef + 1}
    /\ UNCHANGED <<stored, codes, simState, selectedCode, stocks, matchEffect, clock,
                   accepted, appliedId, lastSelectedCodeRef, seriesInFlight,
                   seriesData>>

\* the generation check dropped: every response is applied
IsCurrentRequest_Always(currentId) == TRUE

\* fetchRealData, line 695: currentId === requestIdRef.current
IsCurrentRequest(currentId) == currentId = requestIdRef

\* fetchRealData, lines 683-718: the response of request currentId arrives
QuoteArrives(currentId, outcome, q) ==
    /\ ~matchEffect.on
    /\ currentId \in quoteInFlight
    /\ quoteInFlight' = quoteInFlight \ {currentId}
    /\ IF outcome = "array" /\ IsCurrentRequest(currentId)
       THEN /\ stocks' = q
            /\ appliedId' = currentId
            /\ matchEffect' = IF selectedCode # NoCode
                               THEN [on |-> TRUE, code |-> selectedCode,
                                     price |-> q[selectedCode]]
                               ELSE NoEffect
       ELSE UNCHANGED <<stocks, appliedId, matchEffect>>
    /\ UNCHANGED <<stored, codes, simState, selectedCode, clock, accepted,
                   requestIdRef, lastSelectedCodeRef, seriesInFlight,
                   seriesData>>

QuoteResponse ==
    \E currentId \in 1..(MaxRequests + 1), outcome \in Outcomes \ {"other"},
       q \in QuoteResponses :
        QuoteArrives(currentId, outcome, q)

\* the request fetchMinute and fetchKLine send for a symbol
SeriesRequests(code) == {[code |-> code, kind |-> k] : k \in Kinds}

\* setSelectedCode (line 1302) with the selection effect of lines 773-780:
\* the ref is set, the series of the symbol are emptied and both series are
\* requested; the changed stock objects schedule the matching effect
SelectionEffect(c) ==
    /\ ~matchEffect.on
    /\ c # selectedCode
    /\ selectedCode' = c
    /\ lastSelectedCodeRef' = c
    /\ seriesData' = IF c \in DOMAIN stocks
                      THEN [seriesData EXCEPT ![c] = EmptySeries]
                      ELSE seriesData
    /\ seriesInFlight' = seriesInFlight \cup SeriesRequests(c)
    /\ matchEffect' = IF c \in DOMAIN stocks
                       THEN [on |-> TRUE, code |-> c, price |-> stocks[c]]
                       ELSE NoEffect
    /\ UNCHANGED <<stored, codes, simState, stocks, clock, accepted, requestIdRef,
                   quoteInFlight, appliedId>>

SelectAndFetch == \E c \in codes : SelectionEffect(c)

\* fetchMinute / fetchKLine, lines 730 and 761: the guard at the arrival
SeriesGuard(code) == code = lastSelectedCodeRef

\* setStocks(p => p.map(s => s.code === code ? {...s, [kind]: data} : s))
PutSeries(data, code, kind, value) ==
    IF code \in DOMAIN stocks
    THEN [data EXCEPT ![code][kind] = value]
    ELSE data

\* fetchMinute, lines 724-746, and fetchKLine, lines 755-768, from the
\* arrival of the response: without the expected array fetchMinute empties
\* minuteData and fetchKLine does nothing
SeriesArrives(r, outcome) ==
    /\ ~matchEffect.on
    /\ r \in seriesInFlight
    /\ seriesInFlight' = seriesInFlight \ {r}
    /\ LET applied ==
               /\ outcome # "html"
               /\ SeriesGuard(r.code)
               /\ outcome = "array" \/ r.kind = "minuteData"
       IN  IF applied
           THEN /\ seriesData' =
                      PutSeries(seriesData, r.code, r.kind,
                                IF outcome = "array" THEN r.code ELSE "none")
                /\ matchEffect' =
                      IF r.code = selectedCode /\ r.code \in DOMAIN stocks
                      THEN [on |-> TRUE, code |-> r.code,
                            price |-> stocks[r.code]]
                      ELSE NoEffect
           ELSE UNCHANGED <<seriesData, matchEffect>>
    /\ UNCHANGED <<stored, codes, simState, selectedCode, stocks, clock, accepted,
                   requestIdRef, quoteInFlight, appliedId,
                   lastSelectedCodeRef>>

SeriesResponse ==
    \E r \in seriesInFlight, outcome \in Outcomes : SeriesArrives(r, outcome)

NextFetch ==
    \/ FetchRealData
    \/ QuoteResponse
    \/ SelectAndFetch
    \/ SeriesResponse
    \/ MatchingEffect

SpecFetch == Init /\ [][NextFetch]_vars

(***************************************************************************)
(* The second application variant (src/src/App.tsx): the same quote poll,  *)
(* no ledger handlers, and fetchDetails for the series.                    *)
(***************************************************************************)
\* fetchRealData of the variant, lines 790-808
VariantQuoteArrives(cid, outcome, q) ==
    /\ cid \in quoteInFlight
    /\ quoteInFlight' = quoteInFlight \ {cid}
    /\ IF outcome = "array" /\ cid = requestIdRef
       THEN stocks' = q /\ appliedId' = cid
       ELSE UNCHANGED <<stocks, appliedId>>
    /\ UNCHANGED <<stored, codes, simState, selectedCode, matchEffect, clock,
                   accepted, requestIdRef, lastSelectedCodeRef,
                   seriesInFlight, seriesData>>

VariantQuoteResponse ==
    \E cid \in 1..(MaxRequests + 1), outcome \in Outcomes \ {"other"},
       q \in QuoteResponses :
        VariantQuoteArrives(cid, outcome, q)

\* setSelectedCode (line 923) with the effect of line 842: fetchDetails
\* sends the intraday request
VariantSelection(c) ==
    /\ c # selectedCode
    /\ selectedCode' = c
    /\ seriesInFlight' =
          seriesInFlight \cup {[code |-> c, kind |-> "minuteData"]}
    /\ UNCHANGED <<stored, codes, simState, stocks, matchEffect, clock, accepted,
                   requestIdRef, quoteInFlight, appliedId,
                   lastSelectedCodeRef, seriesData>>

VariantSelect == \E c \in codes : VariantSelection(c)

\* fetchDetails, lines 812-839, from the arrival of a response: the data is
\* stored for the requested symbol whatever is selected by then, and the
\* daily request follows the intraday one
FetchDetailsArrives(r, outcome) ==
    /\ r \in seriesInFlight
    /\ seriesInFlight' =
          (seriesInFlight \ {r}) \cup
             (IF r.kind = "minuteData"
              THEN {[code |-> r.code, kind |-> "klineData"]} ELSE {})
    /\ seriesData' = IF outcome = "array"
                      THEN PutSeries(seriesData, r.code, r.kind, r.code)
                      ELSE seriesData
    /\ UNCHANGED <<stored, codes, simState, selectedCode, stocks, matchEffect, clock,
                   accepted, requestIdRef, quoteInFlight, appliedId,
                   lastSelectedCodeRef>>

FetchDetailsResponse ==
    \E r \in seriesInFlight, outcome \in Outcomes :
        FetchDetailsArrives(r, outcome)

\* the variant's poll tick, lines 783-785, is that of FetchRealData
VariantFetchRealData ==
    /\ codes # {}
    /\ requestIdRef < MaxRequests
    /\ requestIdRef' = requestIdRef + 1
    /\ quoteInFlight' = quoteInFlight \cup {requestIdRef + 1}
    /\ UNCHANGED <<stored, codes, simState, selectedCode, stocks, matchEffect, clock,
                   accepted, appliedId, lastSelectedCodeRef, seriesInFlight,
                   seriesData>>

NextVariant ==
    \/ VariantFetchRealData
    \/ VariantQuoteResponse
    \/ VariantSelect
    \/ FetchDetailsResponse

SpecVariant == Init /\ [][NextVariant]_vars

\* the same program started with a watch-list of one symbol
SpecSingle == InitSingle /\ [][Next]_vars

(***************************************************************************)
(* Notions shared by the properties below.                                 *)
(***************************************************************************)
\* the position of a symbol, the empty account when it has none
AccountOf(st, code) ==
    IF HasPosition(st, code) THEN st.positions[code] ELSE EmptyAccount

\* the limit prices and share counts that pass the input check
LimitPrices == {p \in PriceInputs : ~isNaN(p) /\ RGt(p, Num(0))}
Quantities == {v \in VolInputs : ~isNaN(v) /\ RGt(v, Num(0))}

\* the values Date.now() may take at the next submission
NextIds == {now \in OrderIds : now \in {clock, clock + 1}}

\* what an accepted order does to the ledger besides the reservation: one
\* order [id, limitPrice, quantity, side] is appended at the end of the
\* symbol's resting orders
Appended(next, code, side, price, vol, now) ==
    /\ HasPosition(next, code)
    /\ next.positions[code].pending =
          Append(AccountOf(simState, code).pending,
                 [id |-> now, price |-> price, shares |-> vol, type |-> side])

(***************************************************************************)
(* C1 (as stated).  A BUY with limitPrice > 0 and quantity > 0 on the      *)
(* selected symbol is accepted iff cash >= limitPrice * quantity; on       *)
(* acceptance cash_after + limitPrice * quantity = cash_before,            *)
(* quantityHeld is unchanged and exactly one new order is appended at the  *)
(* end of the symbol's resting orders.                                     *)
(***************************************************************************)
C1_BuyAcceptedIffCash ==
    selectedCode # NoCode =>
        \A price \in LimitPrices, vol \in Quantities, confirmed \in BOOLEAN,
           now \in NextIds :
            LET next == SubmitResult("BUY", price, vol, confirmed, now)
                needed == RMul(price, vol)
            IN  /\ (next # simState) <=> RGeq(simState.cash, needed)
                /\ next # simState =>
                      /\ RAdd(next.cash, needed) = simState.cash
                      /\ AccountOf(next, selectedCode).holding =
                            AccountOf(simState, selectedCode).holding
                      /\ Appended(next, selectedCode, "BUY", price, vol, now)

(***************************************************************************)
(* C1 (amended).  A BUY with limitPrice > 0 and quantity > 0 on the        *)
(* selected symbol is accepted iff cash >= limitPrice * quantity and,      *)
(* when limitPrice is above the selected stock's current price, the user   *)
(* confirms the high-price warning; on acceptance cash_after +             *)
(* limitPrice * quantity = cash_before, quantityHeld is unchanged and      *)
(* exactly one new order is appended at the end of the symbol's resting    *)
(* orders.                                                                 *)
(***************************************************************************)
C1_BuyAcceptedIffCashAndConfirmed ==
    selectedCode # NoCode =>
        \A price \in LimitPrices, vol \in Quantities, confirmed \in BOOLEAN,
           now \in NextIds :
            LET next == SubmitResult("BUY", price, vol, confirmed, now)
                needed == RMul(price, vol)
                warned == /\ selectedCode \in DOMAIN stocks
                          /\ RGt(price, stocks[selectedCode])
            IN  /\ (next # simState) <=>
                      (RGeq(simState.cash, needed) /\ (warned => confirmed))
                /\ next # simState =>
                      /\ RAdd(next.cash, needed) = simState.cash
                      /\ AccountOf(next, selectedCode).holding =
                            AccountOf(simState, selectedCode).holding
                      /\ Appended(next, selectedCode, "BUY", price, vol, now)

\* a BUY order rests whose notional is exactly what cash is below the
\* initial capital, and the selected stock trades below its limit price
C1_Witness ==
    /\ HasPosition(simState, selectedCode)
    /\ selectedCode \in DOMAIN stocks
    /\ \E i \in 1..Len(simState.positions[selectedCode].pending) :
          LET o == simState.positions[selectedCode].pending[i]
          IN  /\ o.type = "BUY"
              /\ RGt(o.price, stocks[selectedCode])
              /\ RAdd(simState.cash, RMul(o.price, o.shares)) =
                    simState.initialCapital

(***************************************************************************)
(* C2.  A SELL with limitPrice > 0 and quantity > 0 on the selected symbol *)
(* is accepted iff the symbol's quantityHeld >= quantity; on acceptance    *)
(* quantityHeld_after + quantity = quantityHeld_before, cash is unchanged  *)
(* and exactly one new order is appended to the resting orders; a SELL on  *)
(* a symbol with no position is always rejected.                           *)
(***************************************************************************)
C2_SellAcceptedIffHeld ==
    selectedCode # NoCode =>
        \A price \in LimitPrices, vol \in Quantities, confirmed \in BOOLEAN,
           now \in NextIds :
            LET next == SubmitResult("SELL", price, vol, confirmed, now)
                held == AccountOf(simState, selectedCode).holding
            IN  /\ (next # simState) <=> RGeq(held, vol)
                /\ next # simState =>
                      /\ RAdd(AccountOf(next, selectedCode).holding, vol) = held
                      /\ next.cash = simState.cash
                      /\ Appended(next, selectedCode, "SELL", price, vol, now)
                /\ ~HasPosition(simState, selectedCode) => next = simState

\* a SELL order rests on the selected symbol, whose shares were bought by a
\* filled BUY and are all reserved
C2_Witness ==
    /\ HasPosition(simState, selectedCode)
    /\ LET pos == simState.positions[selectedCode]
       IN  /\ pos.holding = Num(0)
           /\ Len(pos.pending) = 1
           /\ pos.pending[1].type = "SELL"
           /\ Len(pos.trades) = 1
           /\ pos.trades[1].type = "BUY"
           /\ pos.trades[1].shares = pos.pending[1].shares

(***************************************************************************)
(* C3.  A rejected submission (price or quantity not a number or not       *)
(* positive, BUY with cash < limitPrice * quantity, SELL with quantityHeld *)
(* < quantity) leaves the whole ledger as it was: cash, initialCapital and *)
(* every position are identical, and no position is created.               *)
(***************************************************************************)
C3_RejectedSubmitChangesNothing ==
    \A type \in Sides, price \in PriceInputs, vol \in VolInputs,
       confirmed \in BOOLEAN, now \in NextIds :
        LET rejected ==
                \/ isNaN(price) \/ isNaN(vol)
                \/ RLeq(price, Num(0)) \/ RLeq(vol, Num(0))
                \/ type = "BUY" /\ RLt(simState.cash, RMul(price, vol))
                \/ type = "SELL"
                      /\ RLt(AccountOf(simState, selectedCode).holding, vol)
        IN  rejected =>
              /\ SubmitResult(type, price, vol, confirmed, now) = simState
              /\ DOMAIN SubmitResult(type, price, vol, confirmed, now).positions
                    = DOMAIN simState.positions

\* a symbol without a position is selected and cash is short of a BUY the
\* inputs offer: that BUY and every SELL on the selected symbol are rejected
C3_Witness ==
    /\ selectedCode # NoCode
    /\ ~HasPosition(simState, selectedCode)
    /\ simState.cash # Num(DefaultCapital)
    /\ \E price \in LimitPrices, vol \in Quantities :
          RLt(simState.cash, RMul(price, vol))

(***************************************************************************)
(* C4.  In every state reached from a fresh account by submissions,        *)
(* cancellations, matching ticks, trade deletions, symbol clears, account  *)
(* resets and capital changes, every position's quantityHeld is >= 0.      *)
(***************************************************************************)
C4_HoldingNeverNegative ==
    \A c \in DOMAIN simState.positions :
        RGeq(simState.positions[c].holding, Num(0))

\* every share of a position was sold: a BUY and then a SELL were filled,
\* nothing rests and nothing is held
C4_Witness ==
    \E c \in DOMAIN simState.positions :
        LET pos == simState.positions[c]
        IN  /\ pos.holding = Num(0)
            /\ pos.pending = <<>>
            /\ Len(pos.trades) = 2
            /\ pos.trades[1].type = "BUY"
            /\ pos.trades[2].type = "SELL"

(***************************************************************************)
(* C5.  In every state reached from a fresh account by the ledger          *)
(* operations cash >= 0: the notional of the accepted BUY orders was taken *)
(* out of cash when they were submitted, so the resting BUY orders never   *)
(* commit more than the cash there was to fund them.                       *)
(***************************************************************************)
C5_CashNeverNegative ==
    /\ ~isNaN(simState.cash)
    /\ RGeq(simState.cash, Num(0))

\* a resting BUY order has taken all of the cash
C5_Witness ==
    /\ simState.cash = Num(0)
    /\ \E c \in DOMAIN simState.positions :
          /\ Len(simState.positions[c].pending) = 1
          /\ simState.positions[c].pending[1].type = "BUY"
          /\ RMul(simState.positions[c].pending[1].price,
                  simState.positions[c].pending[1].shares) =
                simState.initialCapital

(***************************************************************************)
(* C6.  An accepted submission followed at once by the cancellation of     *)
(* that order restores the ledger: cash, quantityHeld and the symbol's     *)
(* resting orders equal their values before the submission, for BUY and    *)
(* for SELL.                                                               *)
(***************************************************************************)
C6_SubmitThenCancelRestores ==
    selectedCode # NoCode =>
        \A type \in Sides, price \in LimitPrices, vol \in Quantities,
           now \in NextIds :
            LET submitted == SubmitResult(type, price, vol, TRUE, now)
                cancelled ==
                    cancelOrderUpdate(submitted, selectedCode, now)
                before == AccountOf(simState, selectedCode)
                after == AccountOf(cancelled, selectedCode)
            IN  submitted # simState =>
                  /\ cancelled.cash = simState.cash
                  /\ after.holding = before.holding
                  /\ after.pending = before.pending

(***************************************************************************)
(* C7.  The cancellation of an order that is still resting, at any later   *)
(* point, removes exactly that one order, leaves every other resting order *)
(* in place in the same relative order, and releases exactly that order's  *)
(* reservation: cash += limitPrice * quantity for a BUY, quantityHeld +=   *)
(* quantity for a SELL; nothing else changes.                              *)
(***************************************************************************)
C7_CancelRemovesExactlyThatOrder ==
    HasPosition(simState, selectedCode) =>
        LET pos == simState.positions[selectedCode]
        IN  \A i \in 1..Len(pos.pending) :
                LET o == pos.pending[i]
                    others == SubSeq(pos.pending, 1, i - 1)
                                 \o SubSeq(pos.pending, i + 1, Len(pos.pending))
                    released ==
                        [simState EXCEPT
                           !.cash = IF o.type = "BUY"
                                    THEN RAdd(@, RMul(o.price, o.shares))
                                    ELSE @,
                           !.positions[selectedCode] =
                               [pos EXCEPT
                                  !.holding = IF o.type = "SELL"
                                              THEN RAdd(@, o.shares) ELSE @,
                                  !.pending = others]]
                IN  CancelResult(o.id) = released

(***************************************************************************)
(* C8.  A matching tick of a symbol at currentPrice fills a resting order  *)
(* of that symbol iff (side = BUY and currentPrice <= limitPrice) or       *)
(* (side = SELL and currentPrice >= limitPrice): the trades it records are *)
(* those of the triggered orders, every order still resting after the tick *)
(* has its trigger false at currentPrice, and every order whose trigger    *)
(* was false is still resting.                                             *)
(***************************************************************************)
C8_TickFillsIffTriggered ==
    \A code \in codes, currentPrice \in QuotePrices :
        LET before == AccountOf(simState, code)
            after == AccountOf(matchingUpdate(simState, code, currentPrice),
                               code)
            Trigger(o) ==
                \/ o.type = "BUY" /\ RLeq(currentPrice, o.price)
                \/ o.type = "SELL" /\ RGeq(currentPrice, o.price)
            Resting(o) == ~Trigger(o)
            filled == SelectSeq(before.pending, Trigger)
            recorded == SubSeq(after.trades, Len(before.trades) + 1,
                               Len(after.trades))
        IN  /\ after.pending = SelectSeq(before.pending, Resting)
            /\ \A i \in 1..Len(after.pending) : ~Trigger(after.pending[i])
            /\ SubSeq(after.trades, 1, Len(before.trades)) = before.trades
            /\ Len(recorded) = Len(filled)
            /\ \A i \in 1..Len(filled) :
                  /\ recorded[i].id = <<filled[i].id, "_exec">>
                  /\ recorded[i].type = filled[i].type
                  /\ recorded[i].shares = filled[i].shares

\* a tick at a BUY order's limit price has filled it and left an older BUY
\* order with a lower limit resting
C8_Witness ==
    /\ ~matchEffect.on
    /\ HasPosition(simState, selectedCode)
    /\ selectedCode \in DOMAIN stocks
    /\ LET pos == simState.positions[selectedCode]
       IN  /\ Len(pos.pending) = 1
           /\ Len(pos.trades) = 1
           /\ pos.pending[1].type = "BUY"
           /\ pos.trades[1].type = "BUY"
           /\ pos.trades[1].price = stocks[selectedCode]
           /\ RLt(pos.pending[1].price, stocks[selectedCode])
           /\ pos.trades[1].id[1] > pos.pending[1].id

(***************************************************************************)
(* C9.  On a BUY fill of (quantity q1, limitPrice p1) against a position   *)
(* with quantityHeld q0 and averageCost c0, the new averageCost equals     *)
(* (q0*c0 + q1*p1)/(q0+q1) and the new quantityHeld equals q0+q1.          *)
(***************************************************************************)
C9_BuyFillWeightedAverage ==
    \A code \in codes, currentPrice \in QuotePrices :
        LET pos == AccountOf(simState, code)
            start == SweepStart(simState, pos)
            next == matchingUpdate(simState, code, currentPrice)
        IN  /\ \A k \in 1..Len(pos.pending) :
                  LET o == pos.pending[k]
                      a == Sweep(SubSeq(pos.pending, 1, k - 1), start,
                                 currentPrice)
                      b == Sweep(SubSeq(pos.pending, 1, k), start,
                                 currentPrice)
                  IN  (o.type = "BUY" /\ RLeq(currentPrice, o.price)) =>
                        /\ b.avgCost =
                              RDiv(RAdd(RMul(a.holding, a.avgCost),
                                        RMul(o.shares, o.price)),
                                   RAdd(a.holding, o.shares))
                        /\ b.holding = RAdd(a.holding, o.shares)
            /\ (Len(pos.pending) = 1 /\ pos.pending[1].type = "BUY"
                   /\ RLeq(currentPrice, pos.pending[1].price)) =>
                  /\ AccountOf(next, code).avgCost =
                        RDiv(RAdd(RMul(pos.holding, pos.avgCost),
                                  RMul(pos.pending[1].shares,
                                       pos.pending[1].price)),
                             RAdd(pos.holding, pos.pending[1].shares))
                  /\ AccountOf(next, code).holding =
                        RAdd(pos.holding, pos.pending[1].shares)
            /\ next # simState =>
                  /\ AccountOf(next, code).avgCost =
                        Sweep(pos.pending, start, currentPrice).avgCost
                  /\ AccountOf(next, code).holding =
                        Sweep(pos.pending, start, currentPrice).holding

\* two BUY orders of 100 shares, at 50 and at 60, were filled: 200 shares
\* are held at an average cost of 55
C9_Witness ==
    \E c \in DOMAIN simState.positions :
        LET pos == simState.positions[c]
        IN  /\ pos.holding = Num(200)
            /\ pos.avgCost = Num(55)
            /\ Len(pos.trades) = 2
            /\ pos.trades[1].price # pos.trades[2].price

(***************************************************************************)
(* C10.  A BUY fill never changes cash: the fill is recorded at the        *)
(* order's limitPrice, not at the tick price, the notional was taken at    *)
(* the submission, and no difference between limitPrice and currentPrice   *)
(* is refunded.  With cash = 100000, BUY 100 @ 50 leaves cash 95000, and   *)
(* the tick at 49 fills it: holding = 100, avgCost = 50, cash still 95000, *)
(* no resting order, one trade.                                            *)
(***************************************************************************)
C10_BuyFillKeepsCash ==
    /\ \A code \in codes, currentPrice \in QuotePrices :
          LET before == AccountOf(simState, code)
              next == matchingUpdate(simState, code, currentPrice)
              after == AccountOf(next, code)
              SellFilled(o) ==
                  o.type = "SELL" /\ RGeq(currentPrice, o.price)
              BuyFilled(o) ==
                  o.type = "BUY" /\ RLeq(currentPrice, o.price)
              bought == SelectSeq(before.pending, BuyFilled)
              buys == SelectSeq(SubSeq(after.trades, Len(before.trades) + 1,
                                       Len(after.trades)),
                                LAMBDA t : t.type = "BUY")
          IN  /\ SelectSeq(before.pending, SellFilled) = <<>> =>
                    next.cash = simState.cash
              /\ Len(buys) = Len(bought)
              /\ \A i \in 1..Len(bought) :
                    /\ buys[i].price = bought[i].price
                    /\ buys[i].amount = RMul(bought[i].price, bought[i].shares)
    /\ (selectedCode # NoCode /\ simState.cash = Num(100000)) =>
          \A now \in NextIds :
              LET submitted == SubmitResult("BUY", Num(50), Num(100), TRUE, now)
                  next == matchingUpdate(submitted, selectedCode, Num(49))
                  before == AccountOf(simState, selectedCode)
                  after == AccountOf(next, selectedCode)
              IN  /\ submitted.cash = Num(95000)
                  /\ next.cash = Num(95000)
                  /\ (before.pending = <<>> /\ before.holding = Num(0)
                         /\ before.trades = <<>>) =>
                        /\ after.holding = Num(100)
                        /\ after.avgCost = Num(50)
                        /\ after.pending = <<>>
                        /\ Len(after.trades) = 1

\* the capital was set to 100000, BUY 100 @ 50 was submitted and the tick
\* at 49 has filled it
C10_Witness ==
    /\ simState.initialCapital = Num(100000)
    /\ simState.cash = Num(95000)
    /\ ~matchEffect.on
    /\ HasPosition(simState, selectedCode)
    /\ selectedCode \in DOMAIN stocks
    /\ stocks[selectedCode] = Num(49)
    /\ LET pos == simState.positions[selectedCode]
       IN  /\ pos.holding = Num(100)
           /\ pos.avgCost = Num(50)
           /\ pos.pending = <<>>
           /\ Len(pos.trades) = 1
           /\ pos.trades[1].price = Num(50)

(***************************************************************************)
(* C11.  On a SELL fill of (quantity q, limitPrice p) against a position   *)
(* with averageCost c, cash increases by exactly p*q and realizedPnL by    *)
(* exactly (p - c)*q, c being the position's averageCost at the moment of  *)
(* the fill.  With 100 shares held at 50, SELL 100 @ 60 and the tick at 61 *)
(* give cash += 6000 and realizedPnL += 1000.                              *)
(***************************************************************************)
C11_SellFillCashAndPnl ==
    /\ \A code \in codes, currentPrice \in QuotePrices :
          LET pos == AccountOf(simState, code)
              start == SweepStart(simState, pos)
              next == matchingUpdate(simState, code, currentPrice)
          IN  /\ \A k \in 1..Len(pos.pending) :
                    LET o == pos.pending[k]
                        a == Sweep(SubSeq(pos.pending, 1, k - 1), start,
                                   currentPrice)
                        b == Sweep(SubSeq(pos.pending, 1, k), start,
                                   currentPrice)
                    IN  (o.type = "SELL" /\ RGeq(currentPrice, o.price)) =>
                          /\ b.cash = RAdd(a.cash, RMul(o.price, o.shares))
                          /\ b.realizedPnl =
                                RAdd(a.realizedPnl,
                                     RMul(RSub(o.price, a.avgCost), o.shares))
              /\ (Len(pos.pending) = 1 /\ pos.pending[1].type = "SELL"
                     /\ RGeq(currentPrice, pos.pending[1].price)) =>
                    LET o == pos.pending[1]
                    IN  /\ next.cash =
                              RAdd(simState.cash, RMul(o.price, o.shares))
                        /\ AccountOf(next, code).realizedPnl =
                              RAdd(pos.realizedPnl,
                                   RMul(RSub(o.price, pos.avgCost), o.shares))
    /\ (selectedCode # NoCode
           /\ AccountOf(simState, selectedCode).holding = Num(100)
           /\ AccountOf(simState, selectedCode).avgCost = Num(50)
           /\ AccountOf(simState, selectedCode).pending = <<>>) =>
          \A now \in NextIds :
              LET submitted ==
                      SubmitResult("SELL", Num(60), Num(100), TRUE, now)
                  next == matchingUpdate(submitted, selectedCode, Num(61))
              IN  /\ AccountOf(submitted, selectedCode).holding = Num(0)
                  /\ submitted.cash = simState.cash
                  /\ next.cash = RAdd(simState.cash, Num(6000))
                  /\ AccountOf(next, selectedCode).realizedPnl =
                        RAdd(AccountOf(simState, selectedCode).realizedPnl,
                             Num(1000))
                  /\ AccountOf(next, selectedCode).pending = <<>>

\* 100 shares bought at 50 were sold by SELL 100 @ 60 on the tick at 61
C11_Witness ==
    /\ ~matchEffect.on
    /\ HasPosition(simState, selectedCode)
    /\ selectedCode \in DOMAIN stocks
    /\ stocks[selectedCode] = Num(61)
    /\ LET pos == simState.positions[selectedCode]
       IN  /\ pos.realizedPnl = Num(1000)
           /\ pos.pending = <<>>
           /\ Len(pos.trades) = 2
           /\ pos.trades[1].price = Num(50)
           /\ pos.trades[2].type = "SELL"
           /\ pos.trades[2].price = Num(60)
           /\ simState.cash = RAdd(simState.initialCapital, Num(1000))

(***************************************************************************)
(* C12.  A SELL fill leaves the position's averageCost and quantityHeld    *)
(* unchanged (the shares were taken at the submission); only cash,         *)
(* realizedPnL, the trades and the resting orders change.                  *)
(***************************************************************************)
C12_SellFillKeepsCostAndHolding ==
    \A code \in codes, currentPrice \in QuotePrices :
        LET pos == AccountOf(simState, code)
            start == SweepStart(simState, pos)
            next == matchingUpdate(simState, code, currentPrice)
            BuyFilled(o) == o.type = "BUY" /\ RLeq(currentPrice, o.price)
        IN  /\ \A k \in 1..Len(pos.pending) :
                  LET o == pos.pending[k]
                      a == Sweep(SubSeq(pos.pending, 1, k - 1), start,
                                 currentPrice)
                      b == Sweep(SubSeq(pos.pending, 1, k), start,
                                 currentPrice)
                  IN  (o.type = "SELL" /\ RGeq(currentPrice, o.price)) =>
                        /\ b.avgCost = a.avgCost
                        /\ b.holding = a.holding
            /\ SelectSeq(pos.pending, BuyFilled) = <<>> =>
                  /\ AccountOf(next, code).avgCost = pos.avgCost
                  /\ AccountOf(next, code).holding = pos.holding
                  /\ next.initialCapital = simState.initialCapital
                  /\ \A c \in DOMAIN simState.positions \ {code} :
                        next.positions[c] = simState.positions[c]

\* a SELL of all the shares was filled by a tick at its limit price: the
\* position keeps its average cost and holds nothing
C12_Witness ==
    /\ ~matchEffect.on
    /\ HasPosition(simState, selectedCode)
    /\ selectedCode \in DOMAIN stocks
    /\ LET pos == simState.positions[selectedCode]
       IN  /\ pos.holding = Num(0)
           /\ RGt(pos.avgCost, Num(0))
           /\ Len(pos.trades) = 2
           /\ pos.trades[2].type = "SELL"
           /\ pos.trades[2].price = stocks[selectedCode]
           /\ pos.trades[1].price = pos.avgCost

C14_FillAppendsOneTrade ==
    \A code \in codes, currentPrice \in QuotePrices :
        LET before == AccountOf(simState, code)
            after == AccountOf(matchingUpdate(simState, code, currentPrice),
                               code)
            Filled(o) ==
                \/ o.type = "BUY" /\ RLeq(currentPrice, o.price)
                \/ o.type = "SELL" /\ RGeq(currentPrice, o.price)
            Kept(o) == ~Filled(o)
            filled == SelectSeq(before.pending, Filled)
            appended == Len(after.trades) - Len(before.trades)
            removed == Len(before.pending) - Len(after.pending)
        IN  /\ appended = removed
            /\ appended = Len(filled)
            /\ after.pending = SelectSeq(before.pending, Kept)
            /\ \A j \in 1..Len(before.trades) :
                  after.trades[j] = before.trades[j]
            /\ \A i \in 1..Len(filled) :
                  LET t == after.trades[Len(before.trades) + i]
                  IN  /\ t.type = filled[i].type
                      /\ t.price = filled[i].price
                      /\ t.shares = filled[i].shares
                      /\ t.amount = RMul(filled[i].price, filled[i].shares)

\* a tick below both limits has filled two BUY orders: two trades with the
\* notionals 5000 and 6000, nothing resting
C14_Witness ==
    /\ ~matchEffect.on
    /\ HasPosition(simState, selectedCode)
    /\ LET pos == simState.positions[selectedCode]
       IN  /\ pos.pending = <<>>
           /\ Len(pos.trades) = 2
           /\ {pos.trades[1].amount, pos.trades[2].amount} =
                 {Num(5000), Num(6000)}
           /\ pos.trades[1].type = "BUY"
           /\ pos.trades[2].type = "BUY"

(***************************************************************************)
(* C15.  The resting orders of a symbol that trigger on the same tick are  *)
(* all filled in that tick and are processed in submission order: the      *)
(* appended trades appear in the relative order in which the orders were   *)
(* submitted, and each fill's averageCost / realizedPnL computation sees   *)
(* the effects of the fills of the earlier-submitted orders of the tick.   *)
(***************************************************************************)
C15_SameTickFillsInSubmissionOrder ==
    \A code \in codes, currentPrice \in QuotePrices :
        LET before == AccountOf(simState, code)
            after == AccountOf(matchingUpdate(simState, code, currentPrice),
                               code)
            Triggers(o) ==
                \/ o.type = "BUY" /\ RLeq(currentPrice, o.price)
                \/ o.type = "SELL" /\ RGeq(currentPrice, o.price)
            filled == SelectSeq(before.pending, Triggers)
            HoldingAfter(h, o) ==
                IF o.type = "BUY" THEN RAdd(h, o.shares) ELSE h
            CostAfter(h, c, o) ==
                IF o.type = "BUY"
                THEN RDiv(RAdd(RMul(h, c), RMul(o.shares, o.price)),
                          RAdd(h, o.shares))
                ELSE c
            PnlAfter(pnl, c, o) ==
                IF o.type = "SELL"
                THEN RAdd(pnl, RMul(RSub(o.price, c), o.shares)) ELSE pnl
        IN  /\ \A i \in 1..Len(after.pending) : ~Triggers(after.pending[i])
            /\ Len(after.trades) = Len(before.trades) + Len(filled)
            /\ \A i \in 1..Len(filled) :
                  LET t == after.trades[Len(before.trades) + i]
                  IN  /\ t.id = <<filled[i].id, "_exec">>
                      /\ t.type = filled[i].type
                      /\ t.price = filled[i].price
            /\ Len(filled) = 2 =>
                  LET h1 == HoldingAfter(before.holding, filled[1])
                      c1 == CostAfter(before.holding, before.avgCost,
                                      filled[1])
                      p1 == PnlAfter(before.realizedPnl, before.avgCost,
                                     filled[1])
                  IN  /\ after.holding = HoldingAfter(h1, filled[2])
                      /\ after.avgCost = CostAfter(h1, c1, filled[2])
                      /\ after.realizedPnl = PnlAfter(p1, c1, filled[2])

\* two BUY orders with different limits were filled by one tick: the trade
\* of the older order comes first and the average cost is that of both
C15_Witness ==
    /\ ~matchEffect.on
    /\ HasPosition(simState, selectedCode)
    /\ LET pos == simState.positions[selectedCode]
       IN  /\ pos.pending = <<>>
           /\ Len(pos.trades) = 2
           /\ pos.trades[1].id[1] < pos.trades[2].id[1]
           /\ pos.trades[1].price # pos.trades[2].price
           /\ pos.holding = RAdd(pos.trades[1].shares, pos.trades[2].shares)
           /\ RMul(pos.avgCost, pos.holding) =
                 RAdd(pos.trades[1].amount, pos.trades[2].amount)

(***************************************************************************)
(* C18.  The sweep is synchronous with the price tick: in no state that    *)
(* the UI can read is the selected symbol's newly applied price visible    *)
(* while a resting order of that symbol whose trigger that price satisfies *)
(* is still resting.                                                       *)
(***************************************************************************)
C18_NoTriggeredOrderRestsAtShownPrice ==
    selectedCode \in DOMAIN stocks =>
        LET pending == AccountOf(simState, selectedCode).pending
            shown == stocks[selectedCode]
        IN  \A i \in 1..Len(pending) :
                ~ \/ pending[i].type = "BUY" /\ RLeq(shown, pending[i].price)
                  \/ pending[i].type = "SELL" /\ RGeq(shown, pending[i].price)

(***************************************************************************)
(* C19.  All the fills triggered by one price tick are applied in a single *)
(* ledger transition: every step that adds a fill to a symbol's trade      *)
(* history is the sweep of the tick scheduled for that symbol, and it      *)
(* leaves no order of the symbol resting that the tick's price triggers.   *)
(***************************************************************************)
C19_TickFillsInOneTransition ==
    [][\A c \in DOMAIN simState'.positions :
          LET before == AccountOf(simState, c)
              after == simState'.positions[c]
              tick == matchEffect.price
          IN  Len(after.trades) > Len(before.trades) =>
                /\ matchEffect.on
                /\ matchEffect.code = c
                /\ \A i \in 1..Len(after.pending) :
                      ~ \/ /\ after.pending[i].type = "BUY"
                           /\ RLeq(tick, after.pending[i].price)
                        \/ /\ after.pending[i].type = "SELL"
                           /\ RGeq(tick, after.pending[i].price)
      ]_vars

\* the tick at 49 has filled both resting BUY orders in one transition
C19_Witness ==
    /\ ~matchEffect.on
    /\ HasPosition(simState, selectedCode)
    /\ selectedCode \in DOMAIN stocks
    /\ stocks[selectedCode] = Num(49)
    /\ LET pos == simState.positions[selectedCode]
       IN  /\ pos.pending = <<>>
           /\ pos.holding = Num(200)
           /\ Len(pos.trades) = 2
           /\ simState.cash =
                 RSub(simState.initialCapital, RMul(pos.holding, pos.avgCost))

(***************************************************************************)
(* C20.  The deletion of a trade removes only the trades with that id from *)
(* the selected symbol's trade history and leaves cash, initialCapital,    *)
(* quantityHeld, averageCost, realizedPnL, the resting orders and every    *)
(* other position unchanged.                                               *)
(***************************************************************************)
C20_DeleteTradeOnlyRemovesTrade ==
    \A id \in OrderIds :
        LET tradeId == <<id, "_exec">>
            next == deleteTradeUpdate(simState, selectedCode, tradeId)
            before == AccountOf(simState, selectedCode)
            after == AccountOf(next, selectedCode)
            Stays(t) == t.id # tradeId
        IN  /\ next.cash = simState.cash
            /\ next.initialCapital = simState.initialCapital
            /\ DOMAIN next.positions = DOMAIN simState.positions
            /\ \A c \in DOMAIN simState.positions \ {selectedCode} :
                  next.positions[c] = simState.positions[c]
            /\ after.holding = before.holding
            /\ after.avgCost = before.avgCost
            /\ after.realizedPnl = before.realizedPnl
            /\ after.pending = before.pending
            /\ after.trades = SelectSeq(before.trades, Stays)

\* the trade of a filled BUY was deleted: the shares are held and were
\* paid for, and the trade history is empty
C20_Witness ==
    /\ HasPosition(simState, selectedCode)
    /\ LET pos == simState.positions[selectedCode]
       IN  /\ pos.trades = <<>>
           /\ pos.pending = <<>>
           /\ RGt(pos.holding, Num(0))
           /\ simState.cash =
                 RSub(simState.initialCapital, RMul(pos.holding, pos.avgCost))

(***************************************************************************)
(* C16.  A quote response is applied only if its request generation equals *)
(* the request counter when it arrives; so the generations of the applied  *)
(* responses are strictly increasing and a response to an older request    *)
(* never overwrites what a response to a newer request wrote, whatever the *)
(* interleaving of overlapping polls.                                      *)
(***************************************************************************)
C16_OnlyCurrentGenerationApplied ==
    [][/\ \A g \in quoteInFlight \ quoteInFlight' :
             (stocks' # stocks \/ appliedId' # appliedId) => g = requestIdRef
       /\ appliedId' # appliedId =>
             /\ appliedId' > appliedId
             /\ appliedId' = requestIdRef
             /\ appliedId' \in quoteInFlight \ quoteInFlight'
       /\ stocks' # stocks => appliedId' > appliedId
      ]_vars

\* two polls overlapped and the response of the second was applied first:
\* the response of the first is still to arrive
C16_Witness ==
    /\ requestIdRef = 2
    /\ appliedId = 2
    /\ 1 \in quoteInFlight
    /\ DOMAIN stocks # {}

(***************************************************************************)
(* C17.  A series response (intraday or daily) for a symbol s is applied   *)
(* only if s is the selected symbol when the response arrives: a late      *)
(* response for a symbol deselected since changes no state, and a response *)
(* never changes the series stored for a symbol other than the one it was  *)
(* requested for.                                                          *)
(***************************************************************************)
C17_SeriesAppliedOnlyForSelected ==
    [][\A r \in seriesInFlight \ seriesInFlight' :
          /\ r.code # selectedCode =>
                /\ seriesData' = seriesData
                /\ stocks' = stocks
                /\ simState' = simState
          /\ \A c \in codes \ {r.code} : seriesData'[c] = seriesData[c]
      ]_vars

(***************************************************************************)
(* C21.  A confirmed reset of the account, from any reachable ledger,      *)
(* leaves the positions mapping empty (no holding, trade or resting order  *)
(* of any symbol remains) and cash equal to initialCapital.                *)
(***************************************************************************)
C21_ResetEmptiesLedger ==
    [][ResetConfirm(TRUE) =>
          /\ DOMAIN simState'.positions = {}
          /\ simState'.cash = simState'.initialCapital
      ]_vars

\* the account is back on the reset ledger after orders were accepted
C21_Witness ==
    /\ accepted > 0
    /\ ~matchEffect.on
    /\ simState = resetAccountState

(***************************************************************************)
(* C22.  Clearing a symbol that has a position increases cash by exactly   *)
(* quantityHeld * averageCost plus the sum of limitPrice * quantity over   *)
(* the symbol's resting BUY orders (resting SELL orders add nothing),      *)
(* removes the symbol's position, and leaves every other position and      *)
(* initialCapital unchanged; clearing a symbol without a position changes  *)
(* nothing.                                                                *)
(***************************************************************************)
C22_ClearRefundsAtCost ==
    \A c \in codes :
        LET next == clearStockUpdate(simState, c)
        IN  IF HasPosition(simState, c)
            THEN LET pos == simState.positions[c]
                     p == pos.pending
                     buys[i \in 0..Len(p)] ==
                         IF i = 0 THEN Num(0)
                         ELSE IF p[i].type = "BUY"
                              THEN RAdd(buys[i - 1],
                                        RMul(p[i].price, p[i].shares))
                              ELSE buys[i - 1]
                 IN  /\ next.cash =
                           RAdd(simState.cash,
                                RAdd(RMul(pos.holding, pos.avgCost),
                                     buys[Len(p)]))
                     /\ DOMAIN next.positions =
                           DOMAIN simState.positions \ {c}
                     /\ \A d \in DOMAIN next.positions :
                           next.positions[d] = simState.positions[d]
                     /\ next.initialCapital = simState.initialCapital
            ELSE next = simState

\* the selected symbol was cleared after its order was accepted: it has no
\* position, the other symbol still holds its filled shares, and the cash
\* is the initial capital less the cost of those shares
C22_Witness ==
    /\ accepted = 2
    /\ ~matchEffect.on
    /\ selectedCode # NoCode
    /\ ~HasPosition(simState, selectedCode)
    /\ \E d \in DOMAIN simState.positions :
          LET pos == simState.positions[d]
          IN  /\ RGt(pos.holding, Num(0))
              /\ pos.pending = <<>>
              /\ Len(pos.trades) = 1
              /\ simState.cash =
                    RSub(simState.initialCapital,
                         RMul(pos.holding, pos.avgCost))

(***************************************************************************)
(* C23.  Setting the initial capital to an amount above zero sets both     *)
(* cash and initialCapital to that amount, whatever the cash was, and      *)
(* leaves every position unchanged; an amount that is zero, negative or    *)
(* not a number changes nothing.                                           *)
(***************************************************************************)
C23_SetCapitalOverwritesCash ==
    \A amount \in CapitalInputs :
       LET after == CapitalResult(amount)
       IN  IF ~isNaN(amount) /\ amount[1] * amount[2] > 0
           THEN /\ after.cash = amount
                /\ after.initialCapital = amount
                /\ after.positions = simState.positions
           ELSE after = simState

\* the capital was set to 5000 while a BUY order was resting: the cash is
\* the whole new capital although the order's cash is still reserved
C23_Witness ==
    /\ simState.initialCapital = Num(5000)
    /\ simState.cash = Num(5000)
    /\ \E c \in DOMAIN simState.positions :
          LET p == simState.positions[c].pending
          IN  \E i \in 1..Len(p) : p[i].type = "BUY"

(***************************************************************************)
(* The stored ledger and the initializer of simState.  A JSON value is     *)
(* written [t |-> its type, v |-> its content]: the fields of an object    *)
(* are the domain of v, a property that is absent reads as undefined.  In  *)
(* the specification of this section simState is the value the initializer *)
(* returned, in this form, and undefined while the page is not open.       *)
(***************************************************************************)
JUndefined == [t |-> "undefined", v |-> <<>>]
JNull == [t |-> "null", v |-> <<>>]
\* a non-empty string
JStr == [t |-> "string", v |-> <<>>]
JNum(q) == [t |-> "number", v |-> q]
JArr(s) == [t |-> "array", v |-> s]
JObj(f) == [t |-> "object", v |-> f]
NoFields == [k \in {} |-> JNull]

\* x[key] of a value that is neither null nor undefined
Prop(x, key) ==
    IF x.t = "object" /\ key \in DOMAIN x.v THEN x.v[key] ELSE JUndefined

\* the value counts as true in a condition
Truthy(x) ==
    CASE x.t \in {"undefined", "null"} -> FALSE
      [] x.t = "number" -> ~isNaN(x.v) /\ x.v[1] # 0
      [] OTHER -> TRUE

\* the ledger of lines 573 and 574
DefaultLedger ==
    JObj([k \in {"cash", "initialCapital", "positions"} |->
            IF k = "positions" THEN JObj(NoFields)
            ELSE JNum(Num(1000000))])

\* lines 566-568 on one position object
FixPosition(pos) ==
    LET trades == IF Prop(pos, "trades").t # "array"
                  THEN "trades" :> JArr(<<>>) ELSE NoFields
        pending == IF Prop(pos, "pending").t # "array"
                   THEN "pending" :> JArr(<<>>) ELSE NoFields
        realizedPnl == IF Prop(pos, "realizedPnl").t # "number"
                       THEN "realizedPnl" :> JNum(Num(0)) ELSE NoFields
    IN  JObj(trades @@ pending @@ realizedPnl @@ pos.v)

\* Object.keys(positions).forEach of lines 565-569 throws a TypeError: an
\* entry that is null or undefined has no properties to read, and module
\* code is strict, so a property cannot be created on a number or a
\* string; the characters of a string are such entries
ForEachThrows(positions) ==
    \/ positions.t = "string"
    \/ /\ positions.t = "object"
       /\ \E k \in DOMAIN positions.v : positions.v[k].t # "object"

\* the useState initializer of simState, lines 559-575, on the item found
\* under SIMULATION_KEY; positions that are arrays and position entries
\* that are arrays are not among the stored values considered
LoadSimState(item) ==
    IF item.kind # "json" THEN DefaultLedger
    ELSE LET parsed == item.value
             cash == Prop(parsed, "cash")
             positions == Prop(parsed, "positions")
         IN  IF parsed.t \in {"null", "undefined"} THEN DefaultLedger
             ELSE IF ~(cash.t = "number" /\ Truthy(positions))
                  THEN DefaultLedger
             ELSE IF ForEachThrows(positions) THEN DefaultLedger
             ELSE IF positions.t # "object" THEN parsed
             ELSE JObj([parsed.v EXCEPT
                          !["positions"] =
                              JObj([k \in DOMAIN positions.v |->
                                      FixPosition(positions.v[k])])])

RECURSIVE Stringify(_)
\* JSON.stringify followed by JSON.parse: a NaN is written as null, a
\* property whose value is undefined is left out, an undefined element of
\* an array is written as null
Stringify(x) ==
    CASE x.t = "number" -> IF isNaN(x.v) THEN JNull ELSE x
      [] x.t = "array" ->
            JArr([i \in DOMAIN x.v |->
                    IF x.v[i].t = "undefined" THEN JNull
                    ELSE Stringify(x.v[i])])
      [] x.t = "object" ->
            JObj([k \in {f \in DOMAIN x.v : x.v[f].t # "undefined"} |->
                    Stringify(x.v[k])])
      [] OTHER -> x

\* the position objects a stored ledger may hold: the three newer fields
\* are absent, of the wrong type, or present
PositionInputs ==
    LET Field(f, bad, good) == {NoFields, f :> bad, f :> good}
        base == [k \in {"holding", "avgCost"} |->
                    IF k = "holding" THEN JNum(Num(100)) ELSE JNum(Num(50))]
        trade == JObj("id" :> JStr)
    IN  {JObj(t @@ p @@ r @@ base) :
            t \in Field("trades", JNull, JArr(<<trade>>)),
            p \in Field("pending", JStr, JArr(<<>>)),
            r \in Field("realizedPnl", JStr, JNum(Num(7)))}

\* the values of the positions property considered
PositionsInputs ==
    {NoFields, "positions" :> JNull, "positions" :> JNum(Num(7)),
     "positions" :> JObj(NoFields)}
    \cup {"positions" :> JObj("hk00700" :> pos) : pos \in PositionInputs}

\* what getItem may return: nothing, a text that is not JSON, or the text
\* of a JSON value
StoredInputs ==
    {NoItem, [kind |-> "garbage"],
     [kind |-> "json", value |-> JNull],
     [kind |-> "json", value |-> JNum(Num(5))]}
    \cup {[kind |-> "json",
           value |-> JObj(c @@ ps @@ ("initialCapital" :> JNum(Num(5000))))] :
            c \in {NoFields, "cash" :> JStr, "cash" :> JNum(Num(4000))},
            ps \in PositionsInputs}

\* before the page is opened
InitLoad ==
    /\ stored \in StoredInputs
    /\ simState = JUndefined
    /\ codes = Codes
    /\ selectedCode = NoCode
    /\ stocks = [c \in {} |-> NaN]
    /\ matchEffect = NoEffect
    /\ clock = 0
    /\ accepted = 0
    /\ requestIdRef = 0
    /\ quoteInFlight = {}
    /\ appliedId = 0
    /\ lastSelectedCodeRef = NoCode
    /\ seriesInFlight = {}
    /\ seriesData = [c \in Codes |-> EmptySeries]

\* the component mounts: the initializer of lines 559-575 runs
Mount ==
    /\ simState = JUndefined
    /\ simState' = LoadSimState(stored)
    /\ UNCHANGED <<stored, codes, selectedCode, stocks, matchEffect, clock,
                   accepted, fetchVars>>

\* the effect of line 604 writes the ledger back
PersistEffect ==
    /\ simState # JUndefined
    /\ stored' = [kind |-> "json", value |-> Stringify(simState)]
    /\ UNCHANGED <<codes, simState, selectedCode, stocks, matchEffect, clock,
                   accepted, fetchVars>>

\* the page is closed
Unload ==
    /\ simState # JUndefined
    /\ simState' = JUndefined
    /\ UNCHANGED <<stored, codes, selectedCode, stocks, matchEffect, clock,
                   accepted, fetchVars>>

NextLoad ==
    \/ Mount
    \/ PersistEffect
    \/ Unload

SpecLoad == InitLoad /\ [][NextLoad]_vars

(***************************************************************************)
(* C24.  Loading a stored ledger whose positions lack the newer fields     *)
(* gives every position trades = [] when absent or not an array, pending = *)
(* [] when absent or not an array and realizedPnl = 0 when absent or not a *)
(* number, and keeps every field that is present; a stored ledger that is  *)
(* missing, cannot be parsed, or has no numeric cash or no positions       *)
(* object gives the default ledger (cash = initialCapital = 1000000, no    *)
(* positions).                                                             *)
(***************************************************************************)
C24_LoadRepairsOrDefaults ==
    LET next == LoadSimState(stored)
        parsed == stored.value
        usable ==
            /\ stored.kind = "json"
            /\ parsed.t = "object"
            /\ Prop(parsed, "cash").t = "number"
            /\ Prop(parsed, "positions").t = "object"
        Repaired(before, after, f, type, default) ==
            after.v[f] = IF Prop(before, f).t = type THEN before.v[f]
                         ELSE default
        newer == {"trades", "pending", "realizedPnl"}
    IN  IF usable
        THEN /\ next.t = "object"
             /\ DOMAIN next.v = DOMAIN parsed.v
             /\ \A f \in DOMAIN parsed.v \ {"positions"} :
                   next.v[f] = parsed.v[f]
             /\ next.v["positions"].t = "object"
             /\ DOMAIN next.v["positions"].v = DOMAIN parsed.v["positions"].v
             /\ \A k \in DOMAIN parsed.v["positions"].v :
                   LET before == parsed.v["positions"].v[k]
                       after == next.v["positions"].v[k]
                   IN  /\ after.t = "object"
                       /\ DOMAIN after.v = DOMAIN before.v \cup newer
                       /\ Repaired(before, after, "trades", "array",
                                   JArr(<<>>))
                       /\ Repaired(before, after, "pending", "array",
                                   JArr(<<>>))
                       /\ Repaired(before, after, "realizedPnl", "number",
                                   JNum(Num(0)))
                       /\ \A f \in DOMAIN before.v \ newer :
                             after.v[f] = before.v[f]
        ELSE next = DefaultLedger

(***************************************************************************)
(* The indicator library on the daily series of the selected symbol.  In   *)
(* the specifications from here on a series of seriesData is the array     *)
(* itself, and the symbol hk00700 is selected from the start.              *)
(***************************************************************************)
\* the null pushed by calculateMA
Null == <<>>

Max(a, b) == IF a > b THEN a ELSE b

\* a || b on numbers
OrElse(a, b) == IF isNaN(a) \/ a[1] = 0 THEN b ELSE a

\* calculateMA with the first value one bar late
calculateMA_OneBarLate(data, period) ==
    IF Len(data) < period THEN <<>>
    ELSE [n \in 1..Len(data) |->
            IF n - 1 < period THEN Null
            ELSE LET added[j \in 0..period] ==
                         IF j = 0 THEN [sum |-> Num(0)]
                         ELSE [added[j - 1] EXCEPT
                                 !.sum = RAdd(@, data[n - (j - 1)].close)]
                 IN  RDiv(added[period].sum, Num(period))]

\* TechIndicators.calculateMA, lines 84-93; the loop index i is n - 1
calculateMA(data, period) ==
    IF Len(data) < period THEN <<>>
    ELSE [n \in 1..Len(data) |->
            IF n - 1 < period - 1 THEN Null
            ELSE LET added[j \in 0..period] ==
                         IF j = 0 THEN [sum |-> Num(0)]
                         ELSE [added[j - 1] EXCEPT
                                 !.sum = RAdd(@, data[n - (j - 1)].close)]
                 IN  RDiv(added[period].sum, Num(period))]

\* TechIndicators.calculateMA of the second variant
VariantCalculateMA(data, period) ==
    IF Len(data) < period THEN <<>>
    ELSE [n \in 1..Len(data) |->
            IF n - 1 < period - 1 THEN Null
            ELSE LET added[j \in 0..period] ==
                         IF j = 0 THEN [sum |-> Num(0)]
                         ELSE [added[j - 1] EXCEPT
                                 !.sum = RAdd(@, data[n - (j - 1)].close)]
                 IN  RDiv(added[period].sum, Num(period))]

\* the loop and the result of calculateRSI from the first loop index
\* startIndex (lines 96-103): data[i] of the source is data[i + 1] here
RSIFrom(data, startIndex) ==
    LET last == Len(data) - 1
        change(i) == RSub(data[i + 1].close,
                          OrElse(data[i].close, data[i + 1].open))
        acc[i \in (startIndex - 1)..last] ==
            IF i = startIndex - 1 THEN [gains |-> Num(0), losses |-> Num(0)]
            ELSE IF RGt(change(i), Num(0))
                 THEN [acc[i - 1] EXCEPT !.gains = RAdd(@, change(i))]
                 ELSE [acc[i - 1] EXCEPT
                         !.losses = RAdd(@, RSub(Num(0), change(i)))]
        gains == acc[last].gains
        losses == acc[last].losses
    IN  IF losses = Num(0) THEN Num(100)
        ELSE RSub(Num(100),
                  RDiv(Num(100), RAdd(Num(1), RDiv(gains, losses))))

\* TechIndicators.calculateRSI, lines 94-104
calculateRSI(data, period) ==
    IF Len(data) <= period THEN Num(50)
    ELSE RSIFrom(data, Max(1, Len(data) - period))

\* TechIndicators.calculateRSI of the second variant: the window is five
\* periods long
VariantCalculateRSI(data, period) ==
    IF Len(data) <= period THEN Num(50)
    ELSE RSIFrom(data, Max(1, Len(data) - period * 5))

\* the closes of a daily bar: parseFloat of the feed's text, 0 included
Closes == {Num(0), Num(10), Num(11)}

\* the bars of a k-line response
Bars ==
    {[open |-> Num(12), close |-> c, high |-> Num(12), low |-> c,
      vol |-> Num(1000)] : c \in Closes}

KLineInputs == UNION {[1..n -> Bars] : n \in 0..MaxBars}

\* periods the indicators are asked for
Periods == 1..(MaxBars + 1)

\* the symbol is selected, its quote is shown and its series are empty
InitChart ==
    /\ stored = NoItem
    /\ codes = SingleCode
    /\ simState = DefaultSimState
    /\ selectedCode \in SingleCode
    /\ lastSelectedCodeRef = selectedCode
    /\ stocks = [c \in SingleCode |-> Num(60)]
    /\ matchEffect = NoEffect
    /\ clock = 0
    /\ accepted = 0
    /\ requestIdRef = 0
    /\ quoteInFlight = {}
    /\ appliedId = 0
    /\ seriesInFlight = {}
    /\ seriesData = [c \in SingleCode |->
                        [minuteData |-> <<>>, klineData |-> <<>>]]

\* fetchKLine, lines 755-768: the response for the selected symbol arrives
\* with an array of bars
KLineArrives(kdata) ==
    /\ SeriesGuard(selectedCode)
    /\ seriesData' = PutSeries(seriesData, selectedCode, "klineData", kdata)
    /\ UNCHANGED <<stored, codes, simState, selectedCode, stocks, matchEffect,
                   clock, accepted, requestIdRef, quoteInFlight, appliedId,
                   lastSelectedCodeRef, seriesInFlight>>

KLineResponse == \E kdata \in KLineInputs : KLineArrives(kdata)

NextKLine == KLineResponse

SpecKLine == InitChart /\ [][NextKLine]_vars

\* the daily series of the selected symbol
KData == seriesData[selectedCode].klineData

(***************************************************************************)
(* C29.  For every daily series D and every period k in 1..len(D) the      *)
(* moving average has the length of D, is null at every index i < k - 1    *)
(* and at every index i >= k - 1 is the arithmetic mean of the k closes    *)
(* D[i-k+1..i]; for len(D) < k it is the empty sequence.  Both variants.   *)
(***************************************************************************)
C29_MovingAverageIsTrailingMean ==
    \A k \in Periods :
        \A ma \in {calculateMA(KData, k), VariantCalculateMA(KData, k)} :
            IF Len(KData) < k THEN ma = <<>>
            ELSE /\ Len(ma) = Len(KData)
                 /\ \A n \in 1..Len(KData) :
                       IF n < k THEN ma[n] = Null
                       ELSE LET total[m \in (n - k)..n] ==
                                    IF m = n - k THEN Num(0)
                                    ELSE RAdd(total[m - 1], KData[m].close)
                            IN  /\ ma[n] # Null
                                /\ RMul(ma[n], Num(k)) = total[n]

\* four bars closing 10, 11, 10, 11: the two-bar average is null, then
\* 21/2 three times
C29_Witness ==
    /\ Len(KData) = 4
    /\ \A n \in 1..4 : KData[n].close = (IF n % 2 = 1 THEN Num(10) ELSE Num(11))
    /\ calculateMA(KData, 2) = <<Null, <<21, 2>>, <<21, 2>>, <<21, 2>>>>

(***************************************************************************)
(* C30.  rsi(D, period) is exactly 50 whenever len(D) <= period, exactly   *)
(* 100 whenever len(D) > period and no close of the trailing window is     *)
(* below the close before it (a flat window included), and otherwise a     *)
(* value in [0, 100).  Both variants, each with its own window.            *)
(***************************************************************************)
C30_RsiRange ==
    \A period \in 1..(MaxBars - 1) :
        LET len == Len(KData)
            Claim(r, startIndex) ==
                LET lossFree ==
                        \A i \in startIndex..(len - 1) :
                            RGeq(KData[i + 1].close, KData[i].close)
                IN  IF len <= period THEN r = Num(50)
                    ELSE IF lossFree THEN r = Num(100)
                    ELSE RGeq(r, Num(0)) /\ RLt(r, Num(100))
        IN  /\ Claim(calculateRSI(KData, period), Max(1, len - period))
            /\ Claim(VariantCalculateRSI(KData, period),
                     Max(1, len - period * 5))

(***************************************************************************)
(* The day-session report of the selected symbol.  Here a stock of stocks  *)
(* is the quote object with the fields the report reads.                   *)
(***************************************************************************)
RMax(a, b) == IF RGt(a, b) THEN a ELSE b

\* the quotes considered: five prices around a session mean of 100, and
\* day ranges that give a band of 0.02 (open 90, high 93, low 90) and the
\* floor of 0.015 (no range; open 0)
QuoteInputs ==
    {[price |-> Num(p), prevClose |-> Num(99), open |-> Num(r[1]),
      high |-> Num(r[2]), low |-> Num(r[3])] :
        p \in {97, 98, 100, 102, 103},
        r \in {<<90, 93, 90>>, <<100, 100, 100>>, <<0, 0, 0>>}}

\* the points fetchMinute builds: a price and the volume since the point
\* before
MinutePoints == {[p |-> Num(p), v |-> Num(v)] : p \in {99, 100, 101},
                                                 v \in {0, 1, 3}}

MinuteInputs == UNION {[1..n -> MinutePoints] : n \in 0..MaxPoints}

\* report, lines 784-847: the day-session part.  action stands for
\* t0Action, whose three texts are written opportunity, risk and wait; the
\* levels the branches compare with are kept in the result
T0Report(s, minute) ==
    LET sumP[n \in 0..Len(minute)] ==
            IF n = 0 THEN Num(0) ELSE RAdd(sumP[n - 1], minute[n].p)
        vwap == IF Len(minute) > 0
                THEN RDiv(sumP[Len(minute)], Num(Len(minute)))
                ELSE s.price
        amplitude == IF RGt(s.open, Num(0))
                     THEN RDiv(RSub(s.high, s.low), s.open)
                     ELSE <<1, 50>>
        dynamicBand == RMax(<<3, 200>>, RMul(amplitude, <<3, 5>>))
        dayUp == RMul(vwap, RAdd(Num(1), dynamicBand))
        dayDn == RMul(vwap, RSub(Num(1), dynamicBand))
        levels == [vwap |-> vwap, dynamicBand |-> dynamicBand,
                   dayUp |-> dayUp, dayDn |-> dayDn]
    IN  IF RLt(s.price, dayDn)
        THEN [action |-> "opportunity", buyPoint |-> s.price,
              sellPoint |-> Null] @@ levels
        ELSE IF RGt(s.price, dayUp)
        THEN [action |-> "risk", buyPoint |-> Null,
              sellPoint |-> s.price] @@ levels
        ELSE [action |-> "wait", buyPoint |-> dayDn,
              sellPoint |-> dayUp] @@ levels

\* IntradayChart, lines 219-223: validData
ValidData(data, prevClose) ==
    IF Len(data) = 0 THEN <<>>
    ELSE LET base == IF RGt(prevClose, Num(0)) THEN prevClose
                     ELSE OrElse(data[1].p, Num(1))
         IN  [n \in 1..Len(data) |->
                [p |-> IF isNaN(data[n].p) \/ RLeq(data[n].p, Num(0))
                       THEN base ELSE data[n].p,
                 v |-> IF isNaN(data[n].v) \/ RLt(data[n].v, Num(0))
                       THEN Num(0) ELSE data[n].v]]

\* IntradayChart, lines 231-240: the vwap line of the chart
ChartVwap(data, prevClose) ==
    LET validData == ValidData(data, prevClose)
        total[n \in 0..Len(validData)] ==
            IF n = 0 THEN [PV |-> Num(0), V |-> Num(0)]
            ELSE [PV |-> RAdd(total[n - 1].PV,
                              RMul(validData[n].p, validData[n].v)),
                  V |-> RAdd(total[n - 1].V, validData[n].v)]
        totalPV == total[Len(validData)].PV
        totalV == total[Len(validData)].V
    IN  IF Len(validData) = 0 THEN prevClose
        ELSE IF RGt(totalV, Num(0)) THEN RDiv(totalPV, totalV)
        ELSE prevClose

\* the symbol is selected, a first quote is shown, the series are empty
InitReport ==
    /\ stored = NoItem
    /\ codes = SingleCode
    /\ simState = DefaultSimState
    /\ selectedCode \in SingleCode
    /\ lastSelectedCodeRef = selectedCode
    /\ stocks \in [SingleCode -> QuoteInputs]
    /\ matchEffect = NoEffect
    /\ clock = 0
    /\ accepted = 0
    /\ requestIdRef = 0
    /\ quoteInFlight = {}
    /\ appliedId = 0
    /\ seriesInFlight = {}
    /\ seriesData = [c \in SingleCode |->
                        [minuteData |-> <<>>, klineData |-> <<>>]]

\* fetchRealData, lines 697-715: the newest response replaces the quote and
\* keeps the series; the ledger has no order, so the matching effect it
\* schedules is left out
QuoteTick ==
    \E q \in QuoteInputs :
        /\ stocks' = [c \in DOMAIN stocks |-> q]
        /\ UNCHANGED <<stored, codes, simState, selectedCode, matchEffect,
                       clock, accepted, fetchVars>>

\* fetchMinute, lines 721-748: the response for the selected symbol arrives
\* with an array of points
MinuteArrives(minutePoints) ==
    /\ SeriesGuard(selectedCode)
    /\ seriesData' =
          PutSeries(seriesData, selectedCode, "minuteData", minutePoints)
    /\ UNCHANGED <<stored, codes, simState, selectedCode, stocks, matchEffect,
                   clock, accepted, requestIdRef, quoteInFlight, appliedId,
                   lastSelectedCodeRef, seriesInFlight>>

MinuteResponse == \E minutePoints \in MinuteInputs : MinuteArrives(minutePoints)

NextReport ==
    \/ QuoteTick
    \/ MinuteResponse

SpecReport == InitReport /\ [][NextReport]_vars

\* selStock and its intraday series
SelQuote == stocks[selectedCode]
Minute == seriesData[selectedCode].minuteData

(***************************************************************************)
(* C27.  The deviation-band classification takes the first match: a price  *)
(* strictly below the lower band gives opportunity with buyPoint = price   *)
(* and no sellPoint; otherwise a price strictly above the upper band gives *)
(* risk with sellPoint = price and no buyPoint; otherwise, a price exactly *)
(* on a band included, neutral with buyPoint = lower band and sellPoint =  *)
(* upper band.  The bands are VWAP * (1 - band) and VWAP * (1 + band) of   *)
(* the session VWAP; with VWAP = 100, band = 0.02 and price = 97 the       *)
(* result is opportunity with buyPoint = 97.                               *)
(***************************************************************************)
C27_BandClassification ==
    LET r == T0Report(SelQuote, Minute)
        price == SelQuote.price
        vwap == ChartVwap(Minute, SelQuote.prevClose)
        lower == RMul(vwap, RSub(Num(1), r.dynamicBand))
        upper == RMul(vwap, RAdd(Num(1), r.dynamicBand))
    IN  IF RLt(price, lower)
        THEN r.action = "opportunity" /\ r.buyPoint = price
             /\ r.sellPoint = Null
        ELSE IF RGt(price, upper)
        THEN r.action = "risk" /\ r.sellPoint = price /\ r.buyPoint = Null
        ELSE r.action = "wait" /\ r.buyPoint = lower /\ r.sellPoint = upper

(***************************************************************************)
(* C28.  The session VWAP the deviation bands are built on is the          *)
(* volume-weighted average of the intraday points, sum(price * volume) /   *)
(* sum(volume), and is prevClose when the intraday series is empty or its  *)
(* total volume is zero.                                                   *)
(***************************************************************************)
C28_BandVwapIsVolumeWeighted ==
    LET r == T0Report(SelQuote, Minute)
        total[n \in 0..Len(Minute)] ==
            IF n = 0 THEN [PV |-> Num(0), V |-> Num(0)]
            ELSE [PV |-> RAdd(total[n - 1].PV,
                              RMul(Minute[n].p, Minute[n].v)),
                  V |-> RAdd(total[n - 1].V, Minute[n].v)]
        all == total[Len(Minute)]
        weighted == IF RGt(all.V, Num(0)) THEN RDiv(all.PV, all.V)
                    ELSE SelQuote.prevClose
    IN  /\ r.vwap = weighted
        /\ ChartVwap(Minute, SelQuote.prevClose) = weighted

(***************************************************************************)
(* The force report of the second variant.  A stock of stocks is the quote *)
(* object with the fields ForceEngine.run reads; its daily series is the   *)
(* klineData of seriesData.                                                *)
(***************************************************************************)
RAbs(a) == IF RLt(a, Num(0)) THEN RSub(Num(0), a) ELSE a
RMin(a, b) == IF RLt(a, b) THEN a ELSE b

\* data.slice(from), with from counted from the end
LastBars(data, count) ==
    LET skip == Max(0, Len(data) - count)
    IN  [n \in 1..(Len(data) - skip) |-> data[n + skip]]

\* calculateChandelierExit with a sum that never drops the bar leaving the
\* window
calculateChandelierExit_NeverDrops(data, period, multiplier) ==
    IF Len(data) < period THEN [n \in 1..Len(data) |-> Null]
    ELSE LET trs[n \in 1..Len(data)] ==
                 IF n = 1 THEN RSub(data[n].high, data[n].low)
                 ELSE LET h == data[n].high
                          l == data[n].low
                          c == data[n - 1].close
                      IN  RMax(RSub(h, l),
                               RMax(RAbs(RSub(h, c)), RAbs(RSub(l, c))))
             running[n \in 0..Len(data)] ==
                 IF n = 0 THEN [sumTR |-> Num(0)]
                 ELSE [running[n - 1] EXCEPT !.sumTR = RAdd(@, trs[n])]
             MaxHigh(n) ==
                 LET m[j \in 0..period] ==
                         IF j = 0 THEN Num(0)
                         ELSE RMax(m[j - 1], data[n - (j - 1)].high)
                 IN  m[period]
         IN  [n \in 1..Len(data) |->
                IF n - 1 >= period - 1
                THEN RSub(MaxHigh(n),
                          RMul(RDiv(running[n].sumTR, Num(period)),
                               multiplier))
                ELSE Null]

\* TechIndicators.calculateChandelierExit of the second variant; the loop
\* index i is n - 1
calculateChandelierExit(data, period, multiplier) ==
    IF Len(data) < period THEN [n \in 1..Len(data) |-> Null]
    ELSE LET trs[n \in 1..Len(data)] ==
                 IF n = 1 THEN RSub(data[n].high, data[n].low)
                 ELSE LET h == data[n].high
                          l == data[n].low
                          c == data[n - 1].close
                      IN  RMax(RSub(h, l),
                               RMax(RAbs(RSub(h, c)), RAbs(RSub(l, c))))
             running[n \in 0..Len(data)] ==
                 IF n = 0 THEN [sumTR |-> Num(0)]
                 ELSE [running[n - 1] EXCEPT
                         !.sumTR = IF n - 1 >= period
                                   THEN RSub(RAdd(@, trs[n]), trs[n - period])
                                   ELSE RAdd(@, trs[n])]
             MaxHigh(n) ==
                 LET m[j \in 0..period] ==
                         IF j = 0 THEN Num(0)
                         ELSE RMax(m[j - 1], data[n - (j - 1)].high)
                 IN  m[period]
         IN  [n \in 1..Len(data) |->
                IF n - 1 >= period - 1
                THEN RSub(MaxHigh(n),
                          RMul(RDiv(running[n].sumTR, Num(period)),
                               multiplier))
                ELSE Null]

\* the factors of ForceEngine.run, lines 269-284, of a stock with at least
\* one bar
ForceFactors(stock) ==
    LET klineData == stock.klineData
        exits == calculateChandelierExit(klineData, 22, Num(3))
        lastExit == exits[Len(exits)]
        safePrice == IF lastExit = Null THEN Num(0)
                     ELSE OrElse(lastExit, Num(0))
        recent5 == LastBars(klineData, 5)
        prev5 == LET last10 == LastBars(klineData, 10)
                 IN  [n \in 1..(Len(last10) - Len(recent5)) |-> last10[n]]
        SumVol(bars) ==
            LET s[n \in 0..Len(bars)] ==
                    IF n = 0 THEN Num(0) ELSE RAdd(s[n - 1], bars[n].vol)
            IN  s[Len(bars)]
        avgVol5 == RDiv(SumVol(recent5), Num(5))
        prevVol5 == RDiv(SumVol(prev5), Num(5))
        high5 == LET m[n \in 1..Len(recent5)] ==
                         IF n = 1 THEN recent5[n].high
                         ELSE RMax(m[n - 1], recent5[n].high)
                 IN  m[Len(recent5)]
        low5 == LET m[n \in 1..Len(recent5)] ==
                        IF n = 1 THEN recent5[n].low
                        ELSE RMin(m[n - 1], recent5[n].low)
                IN  m[Len(recent5)]
    IN  [rsi |-> VariantCalculateRSI(klineData, 6),
         isSafe |-> RGeq(stock.price, safePrice),
         volRatioK |-> IF RGt(prevVol5, Num(0))
                       THEN RDiv(avgVol5, prevVol5) ELSE Num(1),
         amp5 |-> IF RGt(low5, Num(0))
                  THEN RDiv(RSub(high5, low5), low5) ELSE Num(0)]

\* the result ForceEngine.run starts from, lines 256-263
ChaosResult == [phase |-> "CHAOS", confidence |-> 35, advice |-> "WAIT"]

\* ForceEngine.run with the accumulation row tested before the lifting row
ForceRun_AccumulationFirst(stock) ==
    IF Len(stock.klineData) < 30 THEN ChaosResult
    ELSE LET f == ForceFactors(stock)
             changePercent == stock.changePercent
             Set(phase, confidence, action) ==
                 [ChaosResult EXCEPT !.phase = phase,
                                     !.confidence = confidence]
                 @@ [action |-> action]
         IN  IF \/ ~f.isSafe /\ RGt(f.rsi, Num(35))
                \/ /\ RLt(changePercent, Num(2))
                   /\ RGt(f.volRatioK, <<11, 5>>)
                   /\ RGt(stock.price, RMul(stock.prevClose, <<11, 10>>))
             THEN Set("DISTRIBUTION", 90, "SELL")
             ELSE IF /\ f.isSafe
                     /\ RLt(f.amp5, <<1, 20>>)
                     /\ RGt(f.volRatioK, <<11, 10>>)
                     /\ RLt(f.volRatioK, <<9, 5>>)
             THEN Set("ACCUMULATION", 70, "HOLD")
             ELSE IF /\ f.isSafe
                     /\ RGt(changePercent, Num(3))
                     /\ RGt(f.volRatioK, <<3, 2>>)
             THEN Set("LIFTING", 88, "BUY")
             ELSE IF /\ f.isSafe
                     /\ RLt(changePercent, <<-3, 2>>)
                     /\ RGt(changePercent, Num(-5))
                     /\ RLt(f.volRatioK, <<4, 5>>)
                     /\ RGt(f.rsi, Num(38))
             THEN Set("SHAKEOUT", 78, "HOLD")
             ELSE ChaosResult

\* ForceEngine.run, lines 254-327: phase, confidence and advice of the
\* result, and the action property the branches create
ForceRun(stock) ==
    IF Len(stock.klineData) < 30 THEN ChaosResult
    ELSE LET f == ForceFactors(stock)
             changePercent == stock.changePercent
             Set(phase, confidence, action) ==
                 [ChaosResult EXCEPT !.phase = phase,
                                     !.confidence = confidence]
                 @@ [action |-> action]
         IN  IF \/ ~f.isSafe /\ RGt(f.rsi, Num(35))
                \/ /\ RLt(changePercent, Num(2))
                   /\ RGt(f.volRatioK, <<11, 5>>)
                   /\ RGt(stock.price, RMul(stock.prevClose, <<11, 10>>))
             THEN Set("DISTRIBUTION", 90, "SELL")
             ELSE IF /\ f.isSafe
                     /\ RGt(changePercent, Num(3))
                     /\ RGt(f.volRatioK, <<3, 2>>)
             THEN Set("LIFTING", 88, "BUY")
             ELSE IF /\ f.isSafe
                     /\ RLt(changePercent, <<-3, 2>>)
                     /\ RGt(changePercent, Num(-5))
                     /\ RLt(f.volRatioK, <<4, 5>>)
                     /\ RGt(f.rsi, Num(38))
             THEN Set("SHAKEOUT", 78, "HOLD")
             ELSE IF /\ f.isSafe
                     /\ RLt(f.amp5, <<1, 20>>)
                     /\ RGt(f.volRatioK, <<11, 10>>)
                     /\ RLt(f.volRatioK, <<9, 5>>)
             THEN Set("ACCUMULATION", 70, "HOLD")
             ELSE ChaosResult

\* a daily series of len bars ending today: bars at 100 in a range of 99
\* to 101 with a volume of 1000, and five last bars with their own volume
\* that may close lower day after day and may reach a high of 110
ForceKLine(recentVol, falling, wide, len) ==
    [n \in 1..len |->
        LET day == n + (30 - len)
            recent == day > 25
            close == IF recent /\ falling THEN 100 - (day - 25) ELSE 100
        IN  [open |-> Num(100),
             close |-> Num(close),
             high |-> Num(IF recent /\ wide THEN 110 ELSE 101),
             low |-> Num(close - 1),
             vol |-> Num(IF recent THEN recentVol ELSE 1000)]]

ForceKLineInputs ==
    {ForceKLine(recentVol, falling, wide, len) :
        recentVol \in {500, 1000, 1500, 1600, 2500},
        falling \in BOOLEAN, wide \in BOOLEAN, len \in {29, 30}}

\* the quotes considered: below the stop, above it, and more than a tenth
\* above the previous close, with three day changes
ForceQuoteInputs ==
    {[price |-> Num(p), prevClose |-> Num(100), changePercent |-> Num(c)] :
        p \in {90, 100, 112}, c \in {-3, 1, 4}}

\* the symbol is selected, a first quote is shown, the series are empty
InitForce ==
    /\ stored = NoItem
    /\ codes = SingleCode
    /\ simState = DefaultSimState
    /\ selectedCode \in SingleCode
    /\ lastSelectedCodeRef = NoCode
    /\ stocks \in [SingleCode -> ForceQuoteInputs]
    /\ matchEffect = NoEffect
    /\ clock = 0
    /\ accepted = 0
    /\ requestIdRef = 0
    /\ quoteInFlight = {}
    /\ appliedId = 0
    /\ seriesInFlight = {}
    /\ seriesData = [c \in SingleCode |->
                        [minuteData |-> <<>>, klineData |-> <<>>]]

\* fetchRealData of the variant, lines 794-806: the newest response
\* replaces the quote and keeps the series
ForceQuoteTick ==
    \E q \in ForceQuoteInputs :
        /\ stocks' = [c \in DOMAIN stocks |-> q]
        /\ UNCHANGED <<stored, codes, simState, selectedCode, matchEffect,
                       clock, accepted, fetchVars>>

\* fetchDetails of the variant, lines 827-838: the daily series arrives
ForceKLineArrives(k) ==
    /\ seriesData' = PutSeries(seriesData, selectedCode, "klineData", k)
    /\ UNCHANGED <<stored, codes, simState, selectedCode, stocks, matchEffect,
                   clock, accepted, requestIdRef, quoteInFlight, appliedId,
                   lastSelectedCodeRef, seriesInFlight>>

ForceKLineResponse == \E k \in ForceKLineInputs : ForceKLineArrives(k)

NextForce ==
    \/ ForceQuoteTick
    \/ ForceKLineResponse

SpecForce == InitForce /\ [][NextForce]_vars

\* selStock of the variant
SelStock == stocks[selectedCode] @@ [klineData |-> KData]

(***************************************************************************)
(* C25.  The phase of the force report is the first matching row of the    *)
(* chain Distribution, Lifting, Shakeout, Accumulation, else Chaos:        *)
(* whenever (price below the trailing stop and RSI > 35) or (dayChange < 2 *)
(* and 5-day volume ratio > 2.2 and price > prevClose * 1.1) the phase is  *)
(* Distribution with confidence 90, whatever the later rows say, and a     *)
(* later phase is reported only when every earlier row is false (Lifting   *)
(* 88, Shakeout 78, Accumulation 70, Chaos 35).  As stated, for every      *)
(* daily series.                                                           *)
(***************************************************************************)
C25_PhaseIsFirstMatchingRow ==
    LET r == ForceRun(SelStock)
        s == SelStock
        f == ForceFactors(s)
        distribution ==
            \/ ~f.isSafe /\ RGt(f.rsi, Num(35))
            \/ /\ RLt(s.changePercent, Num(2))
               /\ RGt(f.volRatioK, <<22, 10>>)
               /\ RGt(s.price, RMul(s.prevClose, <<11, 10>>))
        lifting ==
            f.isSafe /\ RGt(s.changePercent, Num(3))
            /\ RGt(f.volRatioK, <<15, 10>>)
        shakeout ==
            f.isSafe /\ RLt(s.changePercent, <<-15, 10>>)
            /\ RGt(s.changePercent, Num(-5))
            /\ RLt(f.volRatioK, <<8, 10>>) /\ RGt(f.rsi, Num(38))
        accumulation ==
            f.isSafe /\ RLt(f.amp5, <<5, 100>>)
            /\ RGt(f.volRatioK, <<11, 10>>) /\ RLt(f.volRatioK, <<18, 10>>)
        Is(phase, confidence) ==
            r.phase = phase /\ r.confidence = confidence
    IN  IF Len(KData) = 0 THEN Is("CHAOS", 35)
        ELSE IF distribution THEN Is("DISTRIBUTION", 90)
        ELSE IF lifting THEN Is("LIFTING", 88)
        ELSE IF shakeout THEN Is("SHAKEOUT", 78)
        ELSE IF accumulation THEN Is("ACCUMULATION", 70)
        ELSE Is("CHAOS", 35)

\* C25 as it holds: the chain decides for a daily series of at least 30
\* bars; with fewer bars the phase is Chaos with confidence 35
C25_PhaseIsFirstMatchingRowFrom30Bars ==
    LET r == ForceRun(SelStock)
        s == SelStock
        f == ForceFactors(s)
        distribution ==
            \/ ~f.isSafe /\ RGt(f.rsi, Num(35))
            \/ /\ RLt(s.changePercent, Num(2))
               /\ RGt(f.volRatioK, <<22, 10>>)
               /\ RGt(s.price, RMul(s.prevClose, <<11, 10>>))
        lifting ==
            f.isSafe /\ RGt(s.changePercent, Num(3))
            /\ RGt(f.volRatioK, <<15, 10>>)
        shakeout ==
            f.isSafe /\ RLt(s.changePercent, <<-15, 10>>)
            /\ RGt(s.changePercent, Num(-5))
            /\ RLt(f.volRatioK, <<8, 10>>) /\ RGt(f.rsi, Num(38))
        accumulation ==
            f.isSafe /\ RLt(f.amp5, <<5, 100>>)
            /\ RGt(f.volRatioK, <<11, 10>>) /\ RLt(f.volRatioK, <<18, 10>>)
        Is(phase, confidence) ==
            r.phase = phase /\ r.confidence = confidence
    IN  IF Len(KData) < 30 THEN Is("CHAOS", 35)
        ELSE IF distribution THEN Is("DISTRIBUTION", 90)
        ELSE IF lifting THEN Is("LIFTING", 88)
        ELSE IF shakeout THEN Is("SHAKEOUT", 78)
        ELSE IF accumulation THEN Is("ACCUMULATION", 70)
        ELSE Is("CHAOS", 35)

\* thirty bars, above the stop, day change 4, volume ratio 1.6 and a
\* five-day amplitude below 5%: the lifting row and the accumulation row
\* both hold and the phase is Lifting with confidence 88
C25_Witness ==
    /\ Len(KData) = 30
    /\ LET f == ForceFactors(SelStock)
           r == ForceRun(SelStock)
       IN  /\ f.isSafe
           /\ SelStock.changePercent = Num(4)
           /\ f.volRatioK = <<8, 5>>
           /\ RLt(f.amp5, <<1, 20>>)
           /\ r.phase = "LIFTING"
           /\ r.confidence = 88

(***************************************************************************)
(* C26.  The advice of the force report follows the phase: Distribution    *)
(* gives Sell, Lifting gives Buy, Shakeout and Accumulation give Hold,     *)
(* Chaos gives Wait.                                                       *)
(***************************************************************************)
C26_AdviceFollowsPhase ==
    LET r == ForceRun(SelStock)
    IN  r.advice = CASE r.phase = "DISTRIBUTION" -> "SELL"
                     [] r.phase = "LIFTING" -> "BUY"
                     [] r.phase \in {"SHAKEOUT", "ACCUMULATION"} -> "HOLD"
                     [] r.phase = "CHAOS" -> "WAIT"

(***************************************************************************)
(* The trailing stop on its own: short daily series of the second variant  *)
(* whose bars have high >= low > 0, with every period and a multiplier of  *)
(* zero, one or three.                                                     *)
(***************************************************************************)
\* bars with a true range above zero and a flat bar at the previous close
ExitBars ==
    {[open |-> Num(11), close |-> Num(11), high |-> Num(12),
      low |-> Num(10), vol |-> Num(1000)],
     [open |-> Num(11), close |-> Num(11), high |-> Num(11),
      low |-> Num(11), vol |-> Num(1000)],
     [open |-> Num(12), close |-> Num(12), high |-> Num(13),
      low |-> Num(11), vol |-> Num(1000)]}

ExitKLineInputs == UNION {[1..n -> ExitBars] : n \in 0..MaxBars}

Multipliers == {Num(0), Num(1), Num(3)}

ExitKLineResponse == \E k \in ExitKLineInputs : ForceKLineArrives(k)

NextExit == ExitKLineResponse

SpecExit == InitForce /\ [][NextExit]_vars

\* the true range of bar n of data as lines 201-210 compute it
TrueRange(data, n) ==
    IF n = 1 THEN RSub(data[n].high, data[n].low)
    ELSE LET h == data[n].high
             l == data[n].low
             c == data[n - 1].close
         IN  RMax(RSub(h, l), RMax(RAbs(RSub(h, c)), RAbs(RSub(l, c))))

\* the sum of the true ranges of the period bars ending at bar n
WindowTR(data, n, period) ==
    LET s[j \in 0..period] ==
            IF j = 0 THEN Num(0)
            ELSE RAdd(s[j - 1], TrueRange(data, n - (j - 1)))
    IN  s[period]

\* the highest high of the period bars ending at bar n
WindowHigh(data, n, period) ==
    LET m[j \in 1..period] ==
            IF j = 1 THEN data[n].high
            ELSE RMax(m[j - 1], data[n - (j - 1)].high)
    IN  m[period]

(***************************************************************************)
(* C31.  For a daily series with high >= low > 0 and a multiplier >= 0,    *)
(* the trailing stop is undefined at every index below period - 1 and at   *)
(* every later index equals the highest high of the trailing window minus  *)
(* multiplier times the window's summed true range over period; it is at   *)
(* most that highest high, with equality only when the averaged true range *)
(* is zero.                                                                *)
(***************************************************************************)
C31_StopBelowWindowHigh ==
    \A period \in Periods, multiplier \in Multipliers :
       LET exits == calculateChandelierExit(KData, period, multiplier)
       IN  /\ Len(exits) = Len(KData)
           /\ \A n \in 1..Len(KData) :
                 IF n - 1 < period - 1 THEN exits[n] = Null
                 ELSE LET high == WindowHigh(KData, n, period)
                          atr == RDiv(WindowTR(KData, n, period),
                                      Num(period))
                      IN  /\ exits[n] = RSub(high, RMul(multiplier, atr))
                          /\ RLeq(exits[n], high)
                          /\ exits[n] = high => atr = Num(0)

(***************************************************************************)
(* C31, as the code has it: the same, except that the stop equals the      *)
(* highest high exactly when the multiplier or the averaged true range is  *)
(* zero.                                                                   *)
(***************************************************************************)
C31_StopBelowWindowHighUnlessScaledToZero ==
    \A period \in Periods, multiplier \in Multipliers :
       LET exits == calculateChandelierExit(KData, period, multiplier)
       IN  /\ Len(exits) = Len(KData)
           /\ \A n \in 1..Len(KData) :
                 IF n - 1 < period - 1 THEN exits[n] = Null
                 ELSE LET high == WindowHigh(KData, n, period)
                          atr == RDiv(WindowTR(KData, n, period),
                                      Num(period))
                      IN  /\ exits[n] = RSub(high, RMul(multiplier, atr))
                          /\ RLeq(exits[n], high)
                          /\ exits[n] = high <=>
                                (atr = Num(0) \/ multiplier = Num(0))

\* a series longer than the period 2 whose rolling sum has dropped a bar:
\* the last stop is defined and lies below the highest high of its window
C31_Witness ==
    /\ Len(KData) = 4
    /\ LET exits == calculateChandelierExit(KData, 2, Num(3))
       IN  /\ exits[1] = Null
           /\ exits[4] # Null
           /\ RLt(exits[4], WindowHigh(KData, 4, 2))
           /\ TrueRange(KData, 1) # TrueRange(KData, 3)

(***************************************************************************)
(* The strength and the multi-day part of the report of the selected       *)
(* symbol.                                                                 *)
(***************************************************************************)
\* TechIndicators.calculatePosition without the test for a flat window:
\* the quotient 0 / 0 of a flat window is NaN
calculatePosition_NoFlatTest(data, period) ==
    IF Len(data) < period THEN Num(50)
    ELSE LET slice == LastBars(data, period)
             seen[n \in 1..Len(slice)] ==
                 IF n = 1 THEN [max |-> slice[n].high, min |-> slice[n].low]
                 ELSE [seen[n - 1] EXCEPT !.max = RMax(@, slice[n].high),
                                          !.min = RMin(@, slice[n].low)]
             max == seen[Len(slice)].max
             min == seen[Len(slice)].min
             current == slice[Len(slice)].close
         IN  IF max = min THEN NaN
             ELSE RMul(RDiv(RSub(current, min), RSub(max, min)), Num(100))

\* TechIndicators.calculatePosition, lines 121-129, for a period of at
\* least one bar
calculatePosition(data, period) ==
    IF Len(data) < period THEN Num(50)
    ELSE LET slice == LastBars(data, period)
             seen[n \in 1..Len(slice)] ==
                 IF n = 1 THEN [max |-> slice[n].high, min |-> slice[n].low]
                 ELSE [seen[n - 1] EXCEPT !.max = RMax(@, slice[n].high),
                                          !.min = RMin(@, slice[n].low)]
             max == seen[Len(slice)].max
             min == seen[Len(slice)].min
             current == slice[Len(slice)].close
         IN  IF max = min THEN Num(50)
             ELSE RMul(RDiv(RSub(current, min), RSub(max, min)), Num(100))

\* report, lines 849-854: the chain that names a strength
StrengthBucket(strength) ==
    IF RLt(strength, Num(20)) THEN "very-weak"
    ELSE IF RLt(strength, Num(40)) THEN "weak"
    ELSE IF RLt(strength, Num(60)) THEN "moderate"
    ELSE IF RLt(strength, Num(80)) THEN "strong"
    ELSE "very-strong"

\* report, lines 856-884: the multi-day part before its strength is named.
\* The texts of trendPos are written low, mid and high, those of trendDir
\* range, long and short
TrendPart(s, kdata) ==
    IF Len(kdata) >= 20
    THEN LET pos == calculatePosition(kdata, 20)
             ma == calculateMA(kdata, 20)
             lastMA == ma[Len(ma)]
             ma20 == IF lastMA = Null THEN Num(0) ELSE OrElse(lastMA, Num(0))
             extreme == RGt(pos, Num(80)) \/ RLt(pos, Num(20))
             trendDev == RMul(RAbs(RDiv(RSub(s.price, ma20), ma20)),
                              Num(100))
         IN  [position |-> IF RLt(pos, Num(20)) THEN "low"
                           ELSE IF RGt(pos, Num(80)) THEN "high"
                           ELSE "mid",
              trend |-> IF RGt(s.price, ma20) THEN "long" ELSE "short",
              strength |-> RMin(Num(100),
                                RAdd(RMul(trendDev, Num(10)),
                                     IF extreme THEN Num(30) ELSE Num(0)))]
    ELSE [position |-> "mid", trend |-> "range", strength |-> Num(0)]

\* report, lines 784-929: the t0 and trend objects of the report, without
\* their texts, the confidence and the execution score
Report(s, kdata, minute) ==
    LET day == T0Report(s, minute)
        dist == RAbs(RSub(s.price, day.vwap))
        maxDist == RMul(RMul(day.vwap, day.dynamicBand), <<3, 2>>)
        bounded == RMin(Num(100), RMul(RDiv(dist, maxDist), Num(100)))
        rawStrength == IF day.action = "wait" THEN RMax(Num(10), bounded)
                       ELSE bounded
        trend == TrendPart(s, kdata)
        trendStrength == trend.strength
        \* lines 886-890: the last branch assigns t0StrengthLevel
        named == RLt(trendStrength, Num(80))
    IN  [t0 |-> [action |-> day.action,
                 strength |-> rawStrength,
                 strengthLevel |-> IF named THEN StrengthBucket(rawStrength)
                                   ELSE "very-strong"],
         trend |-> [position |-> trend.position,
                    trend |-> trend.trend,
                    strength |-> trendStrength,
                    strengthLevel |-> IF named
                                      THEN StrengthBucket(trendStrength)
                                      ELSE "moderate"]]

\* a daily series of len bars ending today that close at level in a range
\* of one around it; the bar twenty days back is the one that can set the
\* high or the low of the twenty-day window
TrendKLine(level, shape, len) ==
    [n \in 1..len |->
        LET day == n + (20 - len)
            flat == shape = "flat"
        IN  [open |-> Num(level), close |-> Num(level),
             high |-> Num(IF flat THEN level
                          ELSE IF day = 1 /\ shape = "low" THEN level + 10
                          ELSE level + 1),
             low |-> Num(IF flat THEN level
                         ELSE IF day = 1 /\ shape = "high" THEN level - 10
                         ELSE level - 1),
             vol |-> Num(1000)]]

\* bars of short series: one with a range and a flat one
TrendBars ==
    {[open |-> Num(100), close |-> Num(100), high |-> Num(101),
      low |-> Num(98), vol |-> Num(1000)],
     [open |-> Num(100), close |-> Num(100), high |-> Num(100),
      low |-> Num(100), vol |-> Num(1000)]}

TrendKLineInputs ==
    {TrendKLine(level, shape, len) :
        level \in {90, 100}, shape \in {"flat", "mid", "low", "high"},
        len \in {19, 20}}
    \cup UNION {[1..n -> TrendBars] : n \in 0..MaxBars}

\* the intraday series considered: none, and one point at 100
TrendMinuteInputs == {<<>>, <<[p |-> Num(100), v |-> Num(1)]>>}

TrendKLineResponse == \E kdata \in TrendKLineInputs : KLineArrives(kdata)

TrendMinuteResponse ==
    \E minutePoints \in TrendMinuteInputs : MinuteArrives(minutePoints)

NextTrend ==
    \/ QuoteTick
    \/ TrendMinuteResponse
    \/ TrendKLineResponse

SpecTrend == InitReport /\ [][NextTrend]_vars

(***************************************************************************)
(* C32.  calculatePosition(D, period) is 50 when D has fewer bars than the *)
(* period or when the highest high of the window equals its lowest low;    *)
(* with fewer than 20 daily bars the multi-day part of the report is the   *)
(* mid position, the range-bound direction and a strength of 0, whatever   *)
(* the price.                                                              *)
(***************************************************************************)
C32_PositionFallbacks ==
    /\ \A period \in Periods \cup {20} :
          LET flat == /\ Len(KData) >= period
                      /\ \E level \in {Num(90), Num(100)} :
                            \A n \in (Len(KData) - period + 1)..Len(KData) :
                               /\ KData[n].high = level
                               /\ KData[n].low = level
          IN  (Len(KData) < period \/ flat) =>
                 calculatePosition(KData, period) = Num(50)
    /\ Len(KData) < 20 =>
          \A q \in QuoteInputs :
             LET trend == Report(q, KData, Minute).trend
             IN  /\ trend.position = "mid"
                 /\ trend.trend = "range"
                 /\ trend.strength = Num(0)

\* 19 bars closing 90 whose oldest bar reaches 100, and a price of 100
\* that lies far above them: the multi-day part is the default
C32_Witness ==
    /\ KData = TrendKLine(90, "low", 19)
    /\ SelQuote.price = Num(100)
    /\ Report(SelQuote, KData, Minute).trend.position = "mid"
    /\ Report(SelQuote, KData, Minute).trend.strength = Num(0)
    /\ calculatePosition(KData, 20) = Num(50)

(***************************************************************************)
(* C40.  Each strength label of the report is the bucket of its own        *)
(* strength: t0.strengthLevel follows t0.strength alone and                *)
(* trend.strengthLevel follows trend.strength alone, below 20 very-weak,   *)
(* below 40 weak, below 60 moderate, below 80 strong, and very-strong from *)
(* 80 on.                                                                  *)
(***************************************************************************)
C40_StrengthLabelsAreBuckets ==
    LET r == Report(SelQuote, KData, Minute)
    IN  /\ r.t0.strengthLevel = StrengthBucket(r.t0.strength)
        /\ r.trend.strengthLevel = StrengthBucket(r.trend.strength)

(***************************************************************************)
(* Trading on its own: a fresh account on which orders are submitted,      *)
(* cancelled and matched, and nothing else is done.                        *)
(***************************************************************************)
\* handleTradeAction with up to MaxTrades accepted orders
SubmitTrade(type, price, vol, confirmed, now) ==
    /\ ~matchEffect.on
    /\ accepted < MaxTrades
    /\ now \in {clock, clock + 1}
    /\ now <= accepted
    /\ LET next == SubmitResult(type, price, vol, confirmed, now)
       IN  /\ simState' = next
           /\ clock' = IF next # simState THEN now ELSE clock
           /\ accepted' = IF next # simState THEN accepted + 1 ELSE accepted
    /\ UNCHANGED <<stored, codes, selectedCode, stocks, matchEffect, fetchVars>>

TradeAction ==
    \E type \in Sides, price \in PriceInputs, vol \in VolInputs,
       confirmed \in BOOLEAN, now \in 0..MaxTrades :
        SubmitTrade(type, price, vol, confirmed, now)

CancelTrade == \E orderId \in 0..MaxTrades : CancelOrderId(orderId)

NextTrading ==
    \/ TradeAction
    \/ MatchingEffect
    \/ CancelTrade
    \/ SelectCode
    \/ ApplyQuote

SpecTrading == InitSingle /\ [][NextTrading]_vars

\* the realized profit of every position of the ledger
RealizedTotal ==
    LET held == DOMAIN simState.positions
        total[S \in SUBSET held] ==
            IF S = {} THEN Num(0)
            ELSE LET c == CHOOSE x \in S : TRUE
                 IN  RAdd(total[S \ {c}], simState.positions[c].realizedPnl)
    IN  total[held]

\* no position holds a share or has a resting order
AllFlat ==
    \A c \in DOMAIN simState.positions :
       /\ simState.positions[c].holding = Num(0)
       /\ simState.positions[c].pending = <<>>

(***************************************************************************)
(* C33.  On an account that started fresh and on which orders were only    *)
(* submitted, cancelled and matched: whenever no position holds a share    *)
(* or has a resting order, cash - initialCapital is the sum of the         *)
(* realized profit of all positions.                                       *)
(***************************************************************************)
C33_RealizedPnlAccountsForCash ==
    AllFlat =>
       RSub(simState.cash, simState.initialCapital) = RealizedTotal

(***************************************************************************)
(* C38.  A reset of the account leaves initialCapital unchanged: once the  *)
(* capital was set to an amount a, whatever was done on the ledger since,  *)
(* a reset ends with initialCapital = a and cash = a.                      *)
(***************************************************************************)
C38_ResetKeepsInitialCapital ==
    [][ResetConfirm(TRUE) =>
          /\ simState'.initialCapital = simState.initialCapital
          /\ simState'.cash = simState.initialCapital
      ]_vars

(***************************************************************************)
(* C37.  The matching effect touches the selected symbol only: a tick      *)
(* leaves the position of every other symbol as it was (holding, average   *)
(* cost, realized profit, trades and resting orders), so a resting order   *)
(* of a symbol that is not selected stays resting even when the quote      *)
(* response carries a price for that symbol that satisfies its trigger;    *)
(* and a tick that triggers no order leaves the whole ledger as it was.    *)
(***************************************************************************)
C37_TickTouchesSelectedOnly ==
    matchEffect.on =>
       LET code == matchEffect.code
           currentPrice == matchEffect.price
           next == matchingUpdate(simState, code, currentPrice)
           Triggers(o) ==
               \/ o.type = "BUY" /\ RLeq(currentPrice, o.price)
               \/ o.type = "SELL" /\ RGeq(currentPrice, o.price)
           triggered ==
               /\ HasPosition(simState, code)
               /\ \E i \in 1..Len(simState.positions[code].pending) :
                     Triggers(simState.positions[code].pending[i])
       IN  /\ code = selectedCode
           /\ DOMAIN next.positions = DOMAIN simState.positions
           /\ \A c \in DOMAIN simState.positions \ {code} :
                 next.positions[c] = simState.positions[c]
           /\ ~triggered => next = simState

\* the tick of the selected symbol is about to be matched while the other
\* symbol has a resting BUY that the same response's price satisfies
C37_Witness ==
    /\ matchEffect.on
    /\ \E c \in DOMAIN simState.positions \ {selectedCode} :
          /\ c \in DOMAIN stocks
          /\ \E i \in 1..Len(simState.positions[c].pending) :
                LET o == simState.positions[c].pending[i]
                IN  o.type = "BUY" /\ RLeq(stocks[c], o.price)

(***************************************************************************)
(* The quote poll and the series fetches as they go on for ever.  The      *)
(* generation counter is kept within MaxGenerations values that are used   *)
(* in turn; a value is used again only when its earlier request is         *)
(* settled, so the test currentId === requestIdRef.current gives what it   *)
(* gives on the unbounded counter.  Every response is a well-formed one.   *)
(***************************************************************************)
\* requests of the poll that can be pending together: a request is aborted
\* after 5000 ms (line 678) and the timer fires every 3000 ms (line 771)
PollOverlap == 2

\* ++requestIdRef.current
NextGeneration == (requestIdRef % MaxGenerations) + 1

\* fetchRealData, lines 673-680: the timer of line 771 sends the next
\* request
PollTick ==
    /\ ~matchEffect.on
    /\ codes # {}
    /\ Cardinality(quoteInFlight) < PollOverlap
    /\ NextGeneration \notin quoteInFlight
    /\ requestIdRef' = NextGeneration
    /\ quoteInFlight' = quoteInFlight \cup {NextGeneration}
    /\ UNCHANGED <<stored, codes, simState, selectedCode, stocks, matchEffect,
                   clock, accepted, appliedId, lastSelectedCodeRef,
                   seriesInFlight, seriesData>>

\* fetchRealData, lines 683-718: a well-formed response of request
\* currentId arrives
QuoteLoads(currentId) ==
    \E q \in QuoteResponses : QuoteArrives(currentId, "array", q)

QuoteLoad == \E currentId \in 1..MaxGenerations : QuoteLoads(currentId)

\* fetchMinute and fetchKLine: the response arrives with its array
SeriesLoads(r) == SeriesArrives(r, "array")

SeriesLoad == \E r \in SeriesRequests("hk00700") : SeriesLoads(r)

NextFetchLive ==
    \/ PollTick
    \/ QuoteLoad
    \/ SelectAndFetch
    \/ SeriesLoad
    \/ MatchingEffect

\* the timer keeps firing, every request is answered, and the effects React
\* has scheduled are run.  A handler waits while a scheduled effect runs,
\* so the timer and the responses are given strong fairness
FetchFairness ==
    /\ SF_vars(PollTick)
    /\ \A currentId \in 1..MaxGenerations : SF_vars(QuoteLoads(currentId))
    /\ SF_vars(SelectAndFetch)
    /\ \A r \in SeriesRequests("hk00700") : SF_vars(SeriesLoads(r))
    /\ WF_vars(MatchingEffect)

SpecFetchLive == InitSingle /\ [][NextFetchLive]_vars /\ FetchFairness

\* setStocks of line 697 is reached: the response is a well-formed one of
\* the newest request
QuoteApplied ==
    \E currentId \in 1..MaxGenerations :
        IsCurrentRequest(currentId) /\ QuoteLoads(currentId)

(***************************************************************************)
(* C35.  The poll is not starved by its own overlap: with a watch-list     *)
(* that is not empty and every quote request answered in the end by a      *)
(* well-formed response, a quote response is applied to the state again    *)
(* and again, also when responses arrive after the next poll was sent.     *)
(***************************************************************************)
C35_QuotesKeepBeingApplied == []<><<QuoteApplied>>_vars

(***************************************************************************)
(* C36.  The series are loaded in the end: when a symbol is selected and   *)
(* stays selected and every quote and series request is answered by a      *)
(* well-formed response with data, the intraday and the daily series of    *)
(* the symbol become non-empty, whatever the order of the series responses *)
(* and the first applied quote response.                                   *)
(***************************************************************************)
C36_SeriesEventuallyLoaded ==
    \A s \in SingleCode :
        (selectedCode = s) ~>
            (/\ seriesData[s].minuteData # "none"
             /\ seriesData[s].klineData # "none")

(***************************************************************************)
(* Orders and quotes as they go on for ever: the symbol stays selected,    *)
(* orders are submitted and never cancelled, and quote responses keep      *)
(* being applied.                                                          *)
(***************************************************************************)
NextTradeLive ==
    \/ HandleTradeAction
    \/ MatchingEffect
    \/ SelectCode
    \/ ApplyQuote

\* the matching effect React has scheduled is run: the step of
\* MatchingEffect as matchEffect shows it
EffectRuns == matchEffect.on /\ matchEffect' = NoEffect

\* the poll keeps applying quote responses and the scheduled effects are
\* run
TradeFairness ==
    /\ WF_vars(ApplyQuote)
    /\ WF_vars(SelectCode)
    /\ WF_matchEffect(EffectRuns)

SpecTradeLive == InitSingle /\ [][NextTradeLive]_vars /\ TradeFairness

\* the orders handleTradeAction can create
PossibleOrders ==
    {NewOrder(id, price, vol, type) :
        id \in OrderIds, price \in {Num(50), Num(60)}, vol \in {Num(100)},
        type \in Sides}

\* the order rests on the selected symbol
Rests(order) ==
    /\ selectedCode # NoCode
    /\ HasPosition(simState, selectedCode)
    /\ \E i \in 1..Len(simState.positions[selectedCode].pending) :
          simState.positions[selectedCode].pending[i] = order

\* the price shown for the selected symbol satisfies the order's trigger
TriggerSatisfied(order) ==
    /\ HasSelStock
    /\ \/ order.type = "BUY" /\ RLeq(stocks[selectedCode], order.price)
       \/ order.type = "SELL" /\ RGeq(stocks[selectedCode], order.price)

(***************************************************************************)
(* C34.  Every resting order gets its chance: an order of the selected     *)
(* symbol that is resting while the symbol's price satisfies its trigger,  *)
(* an order submitted at a marketable price after the last tick included,  *)
(* is filled in the end, provided the symbol stays selected, the order is  *)
(* not cancelled and quote responses keep being applied.                   *)
(***************************************************************************)
C34_MarketableOrderEventuallyFills ==
    \A order \in PossibleOrders :
        (Rests(order) /\ TriggerSatisfied(order)) ~> ~Rests(order)

(***************************************************************************)
(* The break flags of the strategy report of the second variant.           *)
(***************************************************************************)
\* report, lines 851-856 and 873-875: the stop is the last value of the
\* trailing-stop series with its default period 22 and multiplier 3.0, or
\* null; the RSI has its default period 6
ReportBreakFlags(stock) ==
    LET klineData == stock.klineData
        rope == calculateChandelierExit(klineData, 22, Num(3))
        lastRope == IF Len(rope) = 0 THEN Null ELSE rope[Len(rope)]
        stopPrice == IF lastRope = Null THEN Null
                     ELSE OrElse(lastRope, Null)
        rsi == VariantCalculateRSI(klineData, 6)
        isSafe == IF stopPrice # Null THEN RGeq(stock.price, stopPrice)
                  ELSE TRUE
        isBroken == ~isSafe /\ RGt(rsi, Num(35))
    IN  [stopLossPrice |-> stopPrice,
         isSafe |-> isSafe,
         isBroken |-> isBroken,
         breakStatus |-> IF isBroken THEN "VALID_BREAK"
                         ELSE IF ~isSafe THEN "SUSPECT_TRAP" ELSE "SAFE",
         rsiValue |-> rsi]

\* ForceEngine.run has computed its factors, line 267
ForceEvaluated(stock) == Len(stock.klineData) >= 30

(***************************************************************************)
(* C39.  The break flags of the strategy report agree with the force       *)
(* classification of the same report, for every length of the daily        *)
(* series: when isBroken is true (breakStatus VALID_BREAK) the force phase *)
(* is DISTRIBUTION, and when isSafe is false the force engine has found    *)
(* the price below the stop too.                                           *)
(***************************************************************************)
C39_BreakFlagsAgreeWithForce ==
    LET flags == ReportBreakFlags(SelStock)
    IN  /\ flags.isBroken => ForceRun(SelStock).phase = "DISTRIBUTION"
        /\ ~flags.isSafe =>
              /\ ForceEvaluated(SelStock)
              /\ ~ForceFactors(SelStock).isSafe

\* the two symbols of the watch-list under order entry, selection and the
\* ticks of the poll
SpecTicks == Init /\ [][NextTradeLive]_vars

\* the ledger of the two symbols without the edits of the trade history:
\* deleteTrade changes the trades of a position and nothing else
NextAccount ==
    \/ HandleTradeAction
    \/ MatchingEffect
    \/ CancelOrder
    \/ UpdateCapital
    \/ ResetAccount
    \/ ClearStock
    \/ SelectCode
    \/ ApplyQuote

SpecAccount == Init /\ [][NextAccount]_vars

====
